---- MODULE Spec2Model ----
(***************************************************************************)
(* The action/effect resolution engine of mortus: Game.dispatch and        *)
(* Game.undo (server/engine/game.mjs), processAction (rules.mjs),          *)
(* applyEffect and invertEffect (effects.mjs), modelled as operators over  *)
(* the session's state tree {board, players, log, history}.                *)
(* The websocket server (server/index.mjs) is modelled by its message      *)
(* handlers over the rooms Map and the connections.                        *)
(***************************************************************************)
EXTENDS Integers, Sequences, FiniteSets, TLC

----------------------------------------------------------------------------
(* Bounds of the model.                                                    *)

\* number of session operations (dispatch or undo) in one behaviour
MaxSteps == 2
\* number of session operations in one behaviour of SpecLife
MaxLifeSteps == 4
\* number of operations on the log in one behaviour of SpecLog
MaxLogSteps == 2
\* number of operations on the two sessions in one behaviour of SpecSessions
MaxSessionSteps == 2
\* number of messages the server handles in one behaviour of SpecServer
MaxServerSteps == 4
\* largest draw amount a client sends
MaxDraw == 4
\* number of draws, shuffles and undos in one behaviour of SpecDeck
MaxDeckSteps == 4
\* largest number of ids in the order of a set-zone-order effect of SpecEffects
MaxOrderLen == 3
\* number of operations in one behaviour of SpecPayload
MaxPayloadSteps == 4
\* number of messages and settled fetches in one behaviour of SpecImport
MaxImportSteps == 5

----------------------------------------------------------------------------
(* Program constants.                                                      *)

\* cap of the rolling log: slice(0, 50)
LogCap == 50
\* life total the test state starts from
StartLife == 40
\* cap of the log in the server's addLog: slice(0, 50)
RoomLogCap == 50

\* JavaScript's undefined where a string is expected (ids, names, zones)
Undefined == "undefined"

\* JavaScript values where a number is expected: a number, undefined or NaN
JsValue(t, n) == [t |-> t, n |-> n]
Num(n) == JsValue("num", n)
Undef == JsValue("undefined", 0)
NaN == JsValue("nan", 0)

\* a += b
JsAdd(a, b) == IF a.t = "num" /\ b.t = "num" THEN Num(a.n + b.n) ELSE NaN
\* -a
JsNeg(a) == IF a.t = "num" THEN Num(0 - a.n) ELSE NaN
\* a > b with b a number literal
JsGt(a, k) == a.t = "num" /\ a.n > k
\* Math.abs(a)
JsAbs(a) == IF a.t = "num" THEN Num(IF a.n < 0 THEN 0 - a.n ELSE a.n) ELSE NaN

Zones == {"library", "hand", "battlefield", "stack", "graveyard", "exile", "commander"}

ActionTypes ==
  [PLAY_LAND |-> "PLAY_LAND", CAST_SPELL |-> "CAST_SPELL", DRAW_CARD |-> "DRAW_CARD",
   PASS_PRIORITY |-> "PASS_PRIORITY", TAP_CARD |-> "TAP_CARD", UNTAP_CARD |-> "UNTAP_CARD",
   MOVE_CARD |-> "MOVE_CARD", SHUFFLE_LIBRARY |-> "SHUFFLE_LIBRARY",
   MODIFY_LIFE |-> "MODIFY_LIFE"]

EffectTypes ==
  [TAP_CARD |-> "TAP_CARD", UNTAP_CARD |-> "UNTAP_CARD", MODIFY_LIFE |-> "MODIFY_LIFE",
   MOVE_ZONE |-> "MOVE_ZONE", ADD_LOG |-> "ADD_LOG", SET_ZONE_ORDER |-> "SET_ZONE_ORDER"]

----------------------------------------------------------------------------
(* The records of the engine (types.mjs, types.ts).                        *)

\* a card of state.board; an absent tapped field reads as false in the engine
Card(id, name, owner, zone, tapped) ==
  [id |-> id, name |-> name, owner |-> owner, zone |-> zone, tapped |-> tapped]

\* a player of state.players
Player(id, name, life) == [id |-> id, name |-> name, life |-> life]

\* { type, playerId, payload }
Action(type, playerId, payload) == [type |-> type, playerId |-> playerId, payload |-> payload]

\* { type, payload }
Effect(type, payload) == [type |-> type, payload |-> payload]

\* payloads of actions and effects
CardPayload(cardId) == [cardId |-> cardId]
PlayLandPayload(cardId, playerId) == [playerId |-> playerId, cardId |-> cardId]
MoveZonePayload(cardId, fromZone, toZone) ==
  [cardId |-> cardId, fromZone |-> fromZone, toZone |-> toZone]
MoveZoneIndexPayload(cardId, fromZone, toZone, index) ==
  [cardId |-> cardId, fromZone |-> fromZone, toZone |-> toZone, index |-> index]
MoveCardPayload(cardId, toZone, index) == [cardId |-> cardId, toZone |-> toZone, index |-> index]
PlayerPayload(playerId) == [playerId |-> playerId]
AmountPayload(playerId, amount) == [playerId |-> playerId, amount |-> amount]
SetZoneOrderPayload(zone, owner, order, previousOrder) ==
  [owner |-> owner, zone |-> zone, order |-> order, previousOrder |-> previousOrder]
LogPayload(label, detail) == [label |-> label, detail |-> detail]
\* the payload {} of the no-op
EmptyPayload == [none |-> TRUE]

\* the text of a log entry: its words, and the number it prints (if any)
Detail(text, amount) == [amount |-> amount, text |-> text]

\* an entry of state.log
LogEntry(label, detail, timestamp) == [label |-> label, detail |-> detail, timestamp |-> timestamp]

\* an entry of state.history
HistoryEntry(action, effects, timestamp) ==
  [timestamp |-> timestamp, action |-> action, effects |-> effects]

\* the state tree of a session
GameState(board, players, log, history) ==
  [board |-> board, players |-> players, log |-> log, history |-> history]

\* the outcome of processAction: the effects it returns, or that it threw
ProcessResult(threw, effects) == [effects |-> effects, threw |-> threw]

\* the objects that arrays of cards and players refer to, by reference
Heap(cards, players) == [players |-> players, cards |-> cards]

\* how a call ends for its caller: by a throw or by returning a value
Completion(thrown, value) == [thrown |-> thrown, value |-> value]

\* an entry of the rooms Map; the code is the key
Room(game, clients) == [game |-> game, clients |-> clients]

\* the closure of one connection: currentRoom, name and socket.playerId
Socket(currentRoom, name, playerId) ==
  [name |-> name, playerId |-> playerId, currentRoom |-> currentRoom]

\* a fetchMoxfield promise that has not settled: the connection whose handler
\* started it and the playerId the handler read when it did; room is the room
\* the connection was in at that time, which the callbacks do not read
Fetch(socket, playerId, room) == [playerId |-> playerId, socket |-> socket, room |-> room]

\* { type: 'room_created', room }
RoomCreatedMessage(room) == [type |-> "room_created", room |-> room]

\* { type: 'error', message }
ErrorMessage(message) == [type |-> "error", message |-> message]

\* { type: 'snapshot', room, state }
SnapshotMessage(room, snapshot) == [type |-> "snapshot", room |-> room, state |-> snapshot]

\* a player of a snapshot: { ...p, handCount }
SnapshotPlayer(id, name, life, handCount) ==
  [id |-> id, name |-> name, life |-> life, handCount |-> handCount]

\* the operation that produced a state
Operation(kind, random, threw, action) ==
  [action |-> action, threw |-> threw, kind |-> kind, random |-> random]

----------------------------------------------------------------------------
(* Array helpers.                                                          *)

Min(a, b) == IF a < b THEN a ELSE b
Max(a, b) == IF a > b THEN a ELSE b

\* Array.prototype.find on ids: index of the first element with that id, 0 if none
FindById(arr, id) ==
  IF \E i \in 1..Len(arr) : arr[i].id = id
    THEN CHOOSE i \in 1..Len(arr) : arr[i].id = id /\ \A j \in 1..(i - 1) : arr[j].id # id
    ELSE 0

\* Array.prototype.indexOf, 0-based, -1 if absent
IndexOf(arr, x) ==
  IF \E i \in 1..Len(arr) : arr[i] = x
    THEN (CHOOSE i \in 1..Len(arr) : arr[i] = x /\ \A j \in 1..(i - 1) : arr[j] # x) - 1
    ELSE -1

\* Array.prototype.slice(start) with one argument
SliceFrom(arr, start) ==
  LET k == IF start < 0 THEN Max(Len(arr) + start, 0) ELSE Min(start, Len(arr))
  IN SubSeq(arr, k + 1, Len(arr))

\* Array.prototype.slice(0, end) for end >= 0
SliceTo(arr, end) == SubSeq(arr, 1, Min(end, Len(arr)))

\* Array.prototype.reverse
Reverse(arr) == [i \in 1..Len(arr) |-> arr[Len(arr) + 1 - i]]

\* Array.prototype.map(c => c.id)
Ids(arr) == [i \in 1..Len(arr) |-> arr[i].id]

\* the name of the player with that id: state.players.find(p => p.id === id)?.name
NameOf(players, id) ==
  LET i == FindById(players, id) IN IF i = 0 THEN Undefined ELSE players[i].name

----------------------------------------------------------------------------
(* effects.mjs: the Effect Applier.                                        *)

\* a comparator that puts a card missing from the order in front
CompareByOrder_MissingFirst(a, b, order) ==
  LET indexA == IndexOf(order, a.id)
      indexB == IndexOf(order, b.id)
  IN IF indexA = -1 THEN -1
     ELSE IF indexB = -1 THEN 1
     ELSE indexA - indexB

\* the comparator of cardsInZone.sort in SET_ZONE_ORDER
CompareByOrder(a, b, order) ==
  LET indexA == IndexOf(order, a.id)
      indexB == IndexOf(order, b.id)
  IN IF indexA = -1 THEN 1
     ELSE IF indexB = -1 THEN -1
     ELSE indexA - indexB

\* insertion of x into an already sorted prefix: x moves left past every
\* element the comparator puts it before (the engine's sort is stable)
InsertSorted(sorted, x, order) ==
  LET after == {j \in 1..Len(sorted) : CompareByOrder(x, sorted[j], order) >= 0}
      k == IF after = {} THEN 0 ELSE CHOOSE j \in after : \A i \in after : i <= j
  IN SubSeq(sorted, 1, k) \o <<x>> \o SubSeq(sorted, k + 1, Len(sorted))

RECURSIVE SortByOrder(_, _)
\* cardsInZone.sort((a, b) => ...) of SET_ZONE_ORDER
SortByOrder(cards, order) ==
  IF cards = <<>> THEN <<>>
  ELSE InsertSorted(SortByOrder(SubSeq(cards, 1, Len(cards) - 1), order),
                    cards[Len(cards)], order)

\* MOVE_ZONE that untaps the card wherever it goes
ApplyMoveZone_AlwaysUntaps(state, payload) ==
  LET i == FindById(state.board, payload.cardId)
  IN IF i = 0 THEN state
     ELSE [state EXCEPT !.board[i] = [@ EXCEPT !.zone = payload.toZone, !.tapped = FALSE]]

\* case MOVE_ZONE: the card's zone becomes toZone; hand and library untap it
ApplyMoveZone(state, payload) ==
  LET i == FindById(state.board, payload.cardId)
  IN IF i = 0 THEN state
     ELSE LET moved == [state.board[i] EXCEPT !.zone = payload.toZone]
              card == IF payload.toZone = "hand" \/ payload.toZone = "library"
                        THEN [moved EXCEPT !.tapped = FALSE]
                        ELSE moved
          IN [state EXCEPT !.board[i] = card]

\* TAP_CARD / UNTAP_CARD that falls on the last card of the board when the
\* card does not exist
ApplySetTapped_AbsentHitsLast(state, payload, flag) ==
  LET i == FindById(state.board, payload.cardId)
      last == Len(state.board)
  IN IF i = 0 THEN (IF last = 0 THEN state ELSE [state EXCEPT !.board[last].tapped = flag])
     ELSE [state EXCEPT !.board[i].tapped = flag]

\* case TAP_CARD / UNTAP_CARD: card.tapped = flag when the card exists
ApplySetTapped(state, payload, flag) ==
  LET i == FindById(state.board, payload.cardId)
  IN IF i = 0 THEN state ELSE [state EXCEPT !.board[i].tapped = flag]

\* case MODIFY_LIFE: player.life += amount when the player exists
ApplyModifyLife(state, payload) ==
  LET i == FindById(state.players, payload.playerId)
  IN IF i = 0 THEN state
     ELSE [state EXCEPT !.players[i].life = JsAdd(@, payload.amount)]

\* ADD_LOG that puts the record at the end and keeps the last entries
ApplyAddLog_Appends(state, payload, now) ==
  [state EXCEPT !.log =
     SliceFrom(@ \o <<LogEntry(payload.label, payload.detail, now)>>,
               0 - LogCap)]

\* case ADD_LOG: the record is prepended and the log cut to its cap
ApplyAddLog(state, payload, now) ==
  [state EXCEPT !.log =
     SliceTo(<<LogEntry(payload.label, payload.detail, now)>> \o @,
             LogCap)]

\* SET_ZONE_ORDER whose otherCards filter joins its two tests with && instead of ||
ApplySetZoneOrder_AndFilter(state, payload) ==
  LET InZone(c) == c.zone = payload.zone /\ c.owner = payload.owner
      Other(c) == c.zone # payload.zone /\ c.owner # payload.owner
      cardsInZone == SelectSeq(state.board, InZone)
      otherCards == SelectSeq(state.board, Other)
      sortedCards == SortByOrder(cardsInZone, payload.order)
  IN [state EXCEPT !.board = otherCards \o sortedCards]

\* case SET_ZONE_ORDER: board = [...otherCards, ...sortedCards]
ApplySetZoneOrder(state, payload) ==
  LET InZone(c) == c.zone = payload.zone /\ c.owner = payload.owner
      Other(c) == c.zone # payload.zone \/ c.owner # payload.owner
      cardsInZone == SelectSeq(state.board, InZone)
      otherCards == SelectSeq(state.board, Other)
      sortedCards == SortByOrder(cardsInZone, payload.order)
  IN [state EXCEPT !.board = otherCards \o sortedCards]

\* applyEffect(state, effect); now is the value of Date.now()
applyEffect(state, effect, now) ==
  CASE effect.type = EffectTypes.MOVE_ZONE -> ApplyMoveZone(state, effect.payload)
    [] effect.type = EffectTypes.TAP_CARD -> ApplySetTapped(state, effect.payload, TRUE)
    [] effect.type = EffectTypes.UNTAP_CARD -> ApplySetTapped(state, effect.payload, FALSE)
    [] effect.type = EffectTypes.MODIFY_LIFE -> ApplyModifyLife(state, effect.payload)
    [] effect.type = EffectTypes.ADD_LOG -> ApplyAddLog(state, effect.payload, now)
    [] effect.type = EffectTypes.SET_ZONE_ORDER -> ApplySetZoneOrder(state, effect.payload)
    [] OTHER -> state

NoOp == Effect("NO_OP", EmptyPayload)

\* invertEffect whose MODIFY_LIFE case keeps the sign of the amount
invertEffect_KeepsAmount(effect) ==
  CASE effect.type = EffectTypes.MOVE_ZONE ->
         Effect(EffectTypes.MOVE_ZONE,
                MoveZonePayload(effect.payload.cardId, effect.payload.toZone,
                                effect.payload.fromZone))
    [] effect.type = EffectTypes.TAP_CARD ->
         Effect(EffectTypes.UNTAP_CARD, CardPayload(effect.payload.cardId))
    [] effect.type = EffectTypes.UNTAP_CARD ->
         Effect(EffectTypes.TAP_CARD, CardPayload(effect.payload.cardId))
    [] effect.type = EffectTypes.MODIFY_LIFE ->
         Effect(EffectTypes.MODIFY_LIFE,
                AmountPayload(effect.payload.playerId, effect.payload.amount))
    [] effect.type = EffectTypes.ADD_LOG -> NoOp
    [] effect.type = EffectTypes.SET_ZONE_ORDER ->
         Effect(EffectTypes.SET_ZONE_ORDER,
                SetZoneOrderPayload(effect.payload.zone, effect.payload.owner,
                                    effect.payload.previousOrder, effect.payload.order))
    [] OTHER -> NoOp

\* invertEffect whose SET_ZONE_ORDER case hands previousOrder on as it was
invertEffect_KeepsPrevious(effect) ==
  CASE effect.type = EffectTypes.MOVE_ZONE ->
         Effect(EffectTypes.MOVE_ZONE,
                MoveZonePayload(effect.payload.cardId, effect.payload.toZone,
                                effect.payload.fromZone))
    [] effect.type = EffectTypes.TAP_CARD ->
         Effect(EffectTypes.UNTAP_CARD, CardPayload(effect.payload.cardId))
    [] effect.type = EffectTypes.UNTAP_CARD ->
         Effect(EffectTypes.TAP_CARD, CardPayload(effect.payload.cardId))
    [] effect.type = EffectTypes.MODIFY_LIFE ->
         Effect(EffectTypes.MODIFY_LIFE,
                AmountPayload(effect.payload.playerId, JsNeg(effect.payload.amount)))
    [] effect.type = EffectTypes.ADD_LOG -> NoOp
    [] effect.type = EffectTypes.SET_ZONE_ORDER ->
         Effect(EffectTypes.SET_ZONE_ORDER,
                SetZoneOrderPayload(effect.payload.zone, effect.payload.owner,
                                    effect.payload.previousOrder,
                                    effect.payload.previousOrder))
    [] OTHER -> NoOp

\* invertEffect(effect)
invertEffect(effect) ==
  CASE effect.type = EffectTypes.MOVE_ZONE ->
         Effect(EffectTypes.MOVE_ZONE,
                MoveZonePayload(effect.payload.cardId, effect.payload.toZone,
                                effect.payload.fromZone))
    [] effect.type = EffectTypes.TAP_CARD ->
         Effect(EffectTypes.UNTAP_CARD, CardPayload(effect.payload.cardId))
    [] effect.type = EffectTypes.UNTAP_CARD ->
         Effect(EffectTypes.TAP_CARD, CardPayload(effect.payload.cardId))
    [] effect.type = EffectTypes.MODIFY_LIFE ->
         Effect(EffectTypes.MODIFY_LIFE,
                AmountPayload(effect.payload.playerId, JsNeg(effect.payload.amount)))
    [] effect.type = EffectTypes.ADD_LOG -> NoOp
    [] effect.type = EffectTypes.SET_ZONE_ORDER ->
         Effect(EffectTypes.SET_ZONE_ORDER,
                SetZoneOrderPayload(effect.payload.zone, effect.payload.owner,
                                    effect.payload.previousOrder, effect.payload.order))
    [] OTHER -> NoOp

----------------------------------------------------------------------------
(* rules.mjs: the Action Processor.                                        *)

\* return effects
Returns(effects) == ProcessResult(FALSE, effects)
\* throw new Error(...)
Throws == ProcessResult(TRUE, <<>>)

\* a swap that writes one of the two slots only: newOrder[i] = newOrder[j]
Swap_Overwrites(arr, i, j) == [arr EXCEPT ![i + 1] = arr[j + 1]]

\* [newOrder[i], newOrder[j]] = [newOrder[j], newOrder[i]], 0-based i and j
Swap(arr, i, j) == [arr EXCEPT ![i + 1] = arr[j + 1], ![j + 1] = arr[i + 1]]

RECURSIVE FisherYates(_, _, _)
\* for (let i = newOrder.length - 1; i > 0; i--) { j = floor(random() * (i + 1)); swap }
\* random[i] is the j that Math.random() yields in round i
FisherYates(newOrder, i, random) ==
  IF i <= 0 THEN newOrder
  ELSE FisherYates(Swap(newOrder, i, random[i]), i - 1, random)

\* the outcomes of the Math.random() calls of one shuffle of n cards
RandomChoices(n) == {random \in [1..(n - 1) -> 0..(n - 1)] : \A i \in 1..(n - 1) : random[i] <= i}

\* state.board.filter(c => c.owner === owner && c.zone === 'library')
LibraryCards(board, owner) ==
  LET InLibrary(c) == c.owner = owner /\ c.zone = "library"
  IN SelectSeq(board, InLibrary)

\* PLAY_LAND without the test of the card's zone
ProcessPlayLand_AnyZone(state, action) ==
  LET cardId == action.payload.cardId
      playerId == action.payload.playerId
      i == FindById(state.board, cardId)
      name == NameOf(state.players, playerId)
  IN IF i = 0 THEN Throws
     ELSE Returns(<<
       Effect(EffectTypes.MOVE_ZONE,
              MoveZonePayload(cardId, "hand", "battlefield")),
       Effect(EffectTypes.ADD_LOG,
              LogPayload("Land", Detail(<<IF name = Undefined THEN playerId ELSE name,
                                          "played", state.board[i].name>>, Undef))) >>)

\* case PLAY_LAND; the body of the ownership test is empty
ProcessPlayLand(state, action) ==
  LET cardId == action.payload.cardId
      playerId == action.payload.playerId
      i == FindById(state.board, cardId)
      name == NameOf(state.players, playerId)
  IN IF i = 0 THEN Throws
     ELSE IF state.board[i].zone # "hand" THEN Throws
     ELSE Returns(<<
       Effect(EffectTypes.MOVE_ZONE,
              MoveZonePayload(cardId, "hand", "battlefield")),
       Effect(EffectTypes.ADD_LOG,
              LogPayload("Land", Detail(<<IF name = Undefined THEN playerId ELSE name,
                                          "played", state.board[i].name>>, Undef))) >>)

\* TAP_CARD without the test of the tapped flag
ProcessTapCard_NoCheck(state, action) ==
  LET cardId == action.payload.cardId
      i == FindById(state.board, cardId)
  IN IF i = 0 THEN Throws
     ELSE Returns(<< Effect(EffectTypes.TAP_CARD, CardPayload(cardId)) >>)

\* case TAP_CARD
ProcessTapCard(state, action) ==
  LET cardId == action.payload.cardId
      i == FindById(state.board, cardId)
  IN IF i = 0 THEN Throws
     ELSE IF state.board[i].tapped THEN Throws
     ELSE Returns(<< Effect(EffectTypes.TAP_CARD, CardPayload(cardId)) >>)

\* case UNTAP_CARD
ProcessUntapCard(state, action) ==
  LET cardId == action.payload.cardId
      i == FindById(state.board, cardId)
  IN IF i = 0 THEN Throws
     ELSE IF ~state.board[i].tapped THEN Throws
     ELSE Returns(<< Effect(EffectTypes.UNTAP_CARD, CardPayload(cardId)) >>)

\* case MOVE_CARD
ProcessMoveCard(state, action) ==
  LET cardId == action.payload.cardId
      toZone == action.payload.toZone
      i == FindById(state.board, cardId)
  IN IF i = 0 THEN Throws
     ELSE Returns(<<
       Effect(EffectTypes.MOVE_ZONE,
              MoveZoneIndexPayload(cardId, state.board[i].zone, toZone,
                                   action.payload.index)),
       Effect(EffectTypes.ADD_LOG,
              LogPayload("Move", Detail(<<NameOf(state.players, action.playerId), "moved",
                                          state.board[i].name, "to", toZone>>, Undef))) >>)

\* DRAW_CARD that rejects a draw of more cards than the library holds
ProcessDrawCard_Strict(state, action) ==
  LET playerId == action.payload.playerId
      amount == IF action.payload.amount = Undef THEN Num(1) ELSE action.payload.amount
      p == FindById(state.players, playerId)
  IN IF p = 0 THEN Throws
     ELSE LET player == state.players[p]
              libraryCards == LibraryCards(state.board, player.name)
              cardsToDraw == SliceFrom(libraryCards, 0 - amount.n)
              moves == [k \in 1..Len(cardsToDraw) |->
                          Effect(EffectTypes.MOVE_ZONE,
                                 MoveZonePayload(cardsToDraw[k].id, "library", "hand"))]
          IN IF amount.n > Len(libraryCards) THEN Throws
             ELSE Returns(moves \o <<
               Effect(EffectTypes.ADD_LOG,
                      LogPayload("Draw",
                                 Detail(<<player.name, "drew",
                                          IF JsGt(amount, 1) THEN "cards" ELSE "card">>,
                                        amount))) >>)

\* case DRAW_CARD; const { playerId, amount = 1 } = action.payload
ProcessDrawCard(state, action) ==
  LET playerId == action.payload.playerId
      amount == IF action.payload.amount = Undef THEN Num(1) ELSE action.payload.amount
      p == FindById(state.players, playerId)
  IN IF p = 0 THEN Throws
     ELSE LET player == state.players[p]
              libraryCards == LibraryCards(state.board, player.name)
              cardsToDraw == SliceFrom(libraryCards, 0 - amount.n)
              moves == [k \in 1..Len(cardsToDraw) |->
                          Effect(EffectTypes.MOVE_ZONE,
                                 MoveZonePayload(cardsToDraw[k].id, "library", "hand"))]
          IN Returns(moves \o <<
               Effect(EffectTypes.ADD_LOG,
                      LogPayload("Draw",
                                 Detail(<<player.name, "drew",
                                          IF JsGt(amount, 1) THEN "cards" ELSE "card">>,
                                        amount))) >>)

\* case SHUFFLE_LIBRARY; player.name of a missing player is a TypeError
ProcessShuffleLibrary(state, action, random) ==
  LET playerId == action.payload.playerId
      p == FindById(state.players, playerId)
  IN IF p = 0 THEN Throws
     ELSE LET player == state.players[p]
              libraryCards == LibraryCards(state.board, player.name)
              currentOrder == Ids(libraryCards)
              newOrder == FisherYates(currentOrder, Len(currentOrder) - 1, random)
          IN Returns(<<
               Effect(EffectTypes.SET_ZONE_ORDER,
                      SetZoneOrderPayload("library", player.name, newOrder, currentOrder)),
               Effect(EffectTypes.ADD_LOG,
                      LogPayload("Shuffle",
                                 Detail(<<player.name, "shuffled their library">>, Undef))) >>)

\* case MODIFY_LIFE
ProcessModifyLife(state, action) ==
  LET playerId == action.payload.playerId
      amount == action.payload.amount
  IN Returns(<<
       Effect(EffectTypes.MODIFY_LIFE, AmountPayload(playerId, amount)),
       Effect(EffectTypes.ADD_LOG,
              LogPayload("Life", Detail(<<NameOf(state.players, playerId),
                                          IF JsGt(amount, 0) THEN "gained" ELSE "lost",
                                          "life">>,
                                        JsAbs(amount)))) >>)

\* processAction whose default case writes its warning to the log
processAction_DefaultLogs(state, action, random) ==
  CASE action.type = ActionTypes.PLAY_LAND -> ProcessPlayLand(state, action)
    [] action.type = ActionTypes.TAP_CARD -> ProcessTapCard(state, action)
    [] action.type = ActionTypes.UNTAP_CARD -> ProcessUntapCard(state, action)
    [] action.type = ActionTypes.MOVE_CARD -> ProcessMoveCard(state, action)
    [] action.type = ActionTypes.DRAW_CARD -> ProcessDrawCard(state, action)
    [] action.type = ActionTypes.SHUFFLE_LIBRARY -> ProcessShuffleLibrary(state, action, random)
    [] action.type = ActionTypes.MODIFY_LIFE -> ProcessModifyLife(state, action)
    [] OTHER -> Returns(<< Effect(EffectTypes.ADD_LOG,
                                  LogPayload("Warning",
                                             Detail(<<"Unknown action type", action.type>>,
                                                    Undef))) >>)

\* processAction(state, action); random holds the Math.random() outcomes
processAction(state, action, random) ==
  CASE action.type = ActionTypes.PLAY_LAND -> ProcessPlayLand(state, action)
    [] action.type = ActionTypes.TAP_CARD -> ProcessTapCard(state, action)
    [] action.type = ActionTypes.UNTAP_CARD -> ProcessUntapCard(state, action)
    [] action.type = ActionTypes.MOVE_CARD -> ProcessMoveCard(state, action)
    [] action.type = ActionTypes.DRAW_CARD -> ProcessDrawCard(state, action)
    [] action.type = ActionTypes.SHUFFLE_LIBRARY -> ProcessShuffleLibrary(state, action, random)
    [] action.type = ActionTypes.MODIFY_LIFE -> ProcessModifyLife(state, action)
    [] OTHER -> Returns(<<>>)

\* a processor whose TAP_CARD case sets the flag on the card itself
processActionState_TapsInPlace(state, action, random) ==
  IF action.type = ActionTypes.TAP_CARD /\ ~ProcessTapCard(state, action).threw
    THEN ApplySetTapped(state, action.payload, TRUE)
    ELSE state

\* the state object as processAction(state, action) leaves it: the cases read
\* it with find, filter, map and slice, which build new arrays; the only
\* writes are effects.push on the local list and the swaps of the shuffle,
\* which go to newOrder, a copy ([...currentOrder]) of the array map built;
\* nothing is assigned to the state, a card or a player
processActionState(state, action, random) == state

----------------------------------------------------------------------------
(* game.mjs: the Game Session.                                             *)

\* new Game(initialState): this.state = { ...initialState, history: [] }
Game(initialState) ==
  GameState(initialState.board, initialState.players, initialState.log, <<>>)

RECURSIVE ApplyAll(_, _, _)
\* effects.forEach(effect => applyEffect(this.state, effect))
ApplyAll(state, effects, now) ==
  IF effects = <<>> THEN state
  ELSE ApplyAll(applyEffect(state, Head(effects), now), Tail(effects), now)

\* dispatch whose catch block does not return: a rejected action is recorded
dispatch_NoReturn(state, action, random, now) ==
  LET result == processAction(state, action, random)
      current == processActionState(state, action, random)
      applied == ApplyAll(current, result.effects, now)
  IN [applied EXCEPT !.history =
        Append(@, HistoryEntry(action, result.effects, now))]

\* dispatch that stops one effect short of the list
dispatch_SkipsLast(state, action, random, now) ==
  LET result == processAction(state, action, random)
      current == processActionState(state, action, random)
  IN IF result.threw THEN current
     ELSE LET applied == ApplyAll(current, SubSeq(result.effects, 1, Len(result.effects) - 1), now)
          IN [applied EXCEPT !.history =
                Append(@, HistoryEntry(action, result.effects, now))]

\* how Game.dispatch(action) ends for its caller: the catch block logs to the
\* console and returns, the other path falls off the end of the method
dispatchCompletion(state, action, random) ==
  IF processAction(state, action, random).threw
    THEN Completion(FALSE, Undefined)
    ELSE Completion(FALSE, Undefined)

\* Game.dispatch(action): processAction gets this.state itself, and the effects
\* are applied to that object as the call left it
dispatch(state, action, random, now) ==
  LET result == processAction(state, action, random)
      current == processActionState(state, action, random)
  IN IF result.threw THEN current
     ELSE LET applied == ApplyAll(current, result.effects, now)
          IN [applied EXCEPT !.history =
                Append(@, HistoryEntry(action, result.effects, now))]

\* the inverted list left in the order of the entry's effects
InverseEffects_KeepsOrder(effects) == [i \in 1..Len(effects) |-> invertEffect(effects[i])]

\* lastEntry.effects.map(invertEffect).reverse()
InverseEffects(effects) == Reverse([i \in 1..Len(effects) |-> invertEffect(effects[i])])

\* inverseEffects.forEach(effect => { if (effect.type !== 'NO_OP') applyEffect(...) })
IsNotNoOp(effect) == effect.type # "NO_OP"

\* undo that reads the last entry without popping it
undo_Peek(state, now) ==
  IF state.history = <<>> THEN state
  ELSE LET lastEntry == state.history[Len(state.history)]
           inverseEffects == InverseEffects(lastEntry.effects)
       IN ApplyAll(state, SelectSeq(inverseEffects, IsNotNoOp), now)

\* undo that writes a log entry before it looks at the history
undo_Logs(state, now) ==
  LET logged == ApplyAddLog(state, LogPayload("Undo", Detail(<<"undo">>, Undef)), now)
  IN IF logged.history = <<>> THEN logged
     ELSE LET lastEntry == logged.history[Len(logged.history)]
              popped == [logged EXCEPT !.history = SubSeq(@, 1, Len(@) - 1)]
              inverseEffects == InverseEffects(lastEntry.effects)
          IN ApplyAll(popped, SelectSeq(inverseEffects, IsNotNoOp), now)

\* the effects Game.undo() applies: the inverses of the last entry's effects,
\* last effect first, the no-ops left out
Undone(state) ==
  IF state.history = <<>> THEN <<>>
  ELSE SelectSeq(InverseEffects(state.history[Len(state.history)].effects), IsNotNoOp)

\* Game.undo()
undo(state, now) ==
  IF state.history = <<>> THEN state
  ELSE LET lastEntry == state.history[Len(state.history)]
           popped == [state EXCEPT !.history = SubSeq(@, 1, Len(@) - 1)]
           inverseEffects == InverseEffects(lastEntry.effects)
       IN ApplyAll(popped, SelectSeq(inverseEffects, IsNotNoOp), now)

----------------------------------------------------------------------------
(* Game objects and the objects their state refers to. The constructor     *)
(* spreads initialState: the session's board and players are the arrays    *)
(* and objects of initialState, which applyEffect mutates in place.        *)

\* new Game(initialState), initialState.board and initialState.players being
\* the objects at the given references
NewGame(boardRefs, playerRefs, log) == GameState(boardRefs, playerRefs, log, <<>>)

\* this.state as the methods of a session read it: the references resolved
Resolve(session, heap) ==
  GameState([i \in 1..Len(session.board) |-> heap.cards[session.board[i]]],
            [i \in 1..Len(session.players) |-> heap.players[session.players[i]]],
            session.log, session.history)

\* the session after a method turned the state it read into result: the board
\* array holds the same card objects in the order of result, log and history
\* are the session's own
Rebind(session, heap, result) ==
  LET refOf(id) == CHOOSE r \in {session.board[i] : i \in 1..Len(session.board)} :
                     heap.cards[r].id = id
  IN GameState([i \in 1..Len(result.board) |-> refOf(result.board[i].id)],
               session.players, result.log, result.history)

\* the heap after the method: card.zone, card.tapped and player.life are
\* written to the objects the session refers to
Mutate(session, heap, result) ==
  LET boardRefs == {session.board[i] : i \in 1..Len(session.board)}
      playerAt(r) == CHOOSE i \in 1..Len(session.players) : session.players[i] = r
  IN Heap([r \in DOMAIN heap.cards |->
             IF r \in boardRefs
               THEN result.board[FindById(result.board, heap.cards[r].id)]
               ELSE heap.cards[r]],
          [r \in DOMAIN heap.players |->
             IF \E i \in 1..Len(session.players) : session.players[i] = r
               THEN result.players[playerAt(r)]
               ELSE heap.players[r]])

----------------------------------------------------------------------------
(* index.mjs: the websocket server.                                        *)

\* basePlayers(); deck, status, commander and color play no part in the engine
BasePlayers == << Player("p1", "Mira", Num(21)), Player("p2", "Row", Num(18)) >>

\* baseBoard(); the note of a card plays no part in the engine
BaseBoard ==
  << Card("1", "Maelstrom Wanderer", "Mira", "battlefield", FALSE),
     Card("2", "Solemn Simulacrum", "Mira", "battlefield", TRUE),
     Card("3", "Panharmonicon", "Row", "battlefield", FALSE),
     Card("4", "Whirlwind Denial", "Row", "stack", FALSE),
     Card("5", "Mystic Remora", "Row", "battlefield", FALSE),
     Card("6", "Island", "Row", "battlefield", TRUE),
     Card("7", "Command Tower", "Mira", "battlefield", FALSE),
     Card("8", "Maelstrom Wanderer", "Mira", "commander", FALSE),
     Card("9", "Sakura-Tribe Elder", "Mira", "graveyard", FALSE),
     Card("10", "Cyclonic Rift", "Row", "exile", FALSE),
     Card("11", "Steam Vents", "Row", "graveyard", FALSE),
     Card("12", "Brainstorm", "Row", "hand", FALSE),
     Card("13", "Arcane Denial", "Row", "hand", FALSE),
     Card("14", "Misty Rainforest", "Mira", "hand", FALSE),
     Card("15", "Everflowing Chalice", "Mira", "hand", FALSE) >>

\* createRoomGame(seed); seed and pending of the state play no part in the engine
createRoomGame(seed, now) ==
  Game(GameState(BaseBoard, BasePlayers,
                 <<LogEntry("Seed", Detail(<<"Game seed locked", seed, "for determinism">>, Undef),
                            now)>>,
                 <<>>))

\* getRoom(code): the rooms Map after the call
getRoom(rooms, code, now) ==
  IF code \in DOMAIN rooms THEN rooms
  ELSE [c \in DOMAIN rooms \cup {code} |->
          IF c = code THEN Room(createRoomGame(code, now), {}) ELSE rooms[c]]

\* the state broadcastSnapshot sends to a client whose socket.playerId is viewerId
Snapshot(state, viewerId) ==
  LET viewerName == NameOf(state.players, viewerId)
      Visible(card) == card.zone # "hand" \/ card.owner = viewerName
      handCount(p) ==
        LET InHand(c) == c.zone = "hand" /\ c.owner = p.name
        IN Len(SelectSeq(state.board, InHand))
      playersWithCounts ==
        [i \in 1..Len(state.players) |->
           SnapshotPlayer(state.players[i].id, state.players[i].name, state.players[i].life,
                          handCount(state.players[i]))]
      idx == FindById(state.players, viewerId)
      sortedPlayers ==
        IF viewerId # Undefined /\ idx > 0
          THEN SubSeq(playersWithCounts, idx, Len(playersWithCounts))
                 \o SubSeq(playersWithCounts, 1, idx - 1)
          ELSE playersWithCounts
  IN GameState(SelectSeq(state.board, Visible), sortedPlayers, state.log, state.history)

\* the first free seat of a room: p1, then p2, then null (a spectator)
AssignPlayerId(takenIds) ==
  IF "p1" \notin takenIds THEN "p1"
  ELSE IF "p2" \notin takenIds THEN "p2"
  ELSE Undefined

\* the join handler's update of the room's state: the seat takes the client's
\* name, and the cards of the seat's old name follow it
RenameSeat(state, playerId, name) ==
  LET oldName == NameOf(state.players, playerId)
      players == [i \in 1..Len(state.players) |->
                    IF state.players[i].id = playerId
                      THEN [state.players[i] EXCEPT !.name = name]
                      ELSE state.players[i]]
      board == IF oldName # Undefined /\ oldName # name
                 THEN [i \in 1..Len(state.board) |->
                         IF state.board[i].owner = oldName
                           THEN [state.board[i] EXCEPT !.owner = name]
                           ELSE state.board[i]]
                 ELSE state.board
  IN [state EXCEPT !.players = players, !.board = board]

\* ids that nextCardId hands out: the counter and the random suffix make every
\* id new; the import that completes at time now takes three of them
ImportIds ==
  << "i1", "i2", "i3", "i4", "i5", "i6", "i7", "i8", "i9", "i10", "i11", "i12",
     "i13", "i14", "i15", "i16", "i17", "i18", "i19", "i20", "i21", "i22", "i23", "i24" >>

\* buildBoardFromDeck(deck, [player]) for a deck of one commander and two
\* mainboard cards: the commander, then the shuffled mainboard, which the
\* opening draw of seven takes to hand as a whole; swapped is the outcome of
\* the shuffle
buildBoardFromDeck(owner, now, swapped) ==
  LET first == Card(ImportIds[3 * now - 2], "Sol Ring", owner, "hand", FALSE)
      second == Card(ImportIds[3 * now - 1], "Forest", owner, "hand", FALSE)
      commander == Card(ImportIds[3 * now], "Omnath", owner, "commander", FALSE)
  IN <<commander>> \o (IF swapped THEN <<second, first>> ELSE <<first, second>>)

\* the then-callback of import_deck on room.game.state: the cards of the
\* importing seat are dropped and the cards of the deck pushed
ImportCards(state, playerId, now, swapped) ==
  LET owner == NameOf(state.players, playerId)
      NotOwned(c) == c.owner # owner
  IN [state EXCEPT !.board = SelectSeq(@, NotOwned) \o buildBoardFromDeck(owner, now, swapped)]

\* addLog(room, label, detail) of index.mjs, on room.game.state
addLog(state, label, detail, now) ==
  [state EXCEPT !.log =
     SliceTo(<<LogEntry(label, detail, now)>> \o @, RoomLogCap)]

----------------------------------------------------------------------------
(* The session as a state machine.                                         *)

VARIABLES
  state,    \* Game.state: board, players, log, history
  clock,    \* Date.now(), advanced by every operation
  op,       \* the operation that produced this state, and whether the processor threw
  heap,     \* the card and player objects that sessions refer to
  sessions, \* Game objects built by new Game(...), holding references into heap
  rooms,    \* the server's rooms Map: code -> { game, clients }
  sockets,  \* per connection: currentRoom, name, socket.playerId
  outbox,   \* the messages the last handler sent, per connection
  fetches   \* the import_deck fetches that have not settled, in request order

vars == <<state, clock, op, heap, sessions, rooms, sockets, outbox, fetches>>

\* the variables of the sessions with shared objects and of the server
sessionVars == <<heap, sessions>>
serverVars == <<rooms, sockets, outbox, fetches>>

\* no session object and no server is part of a behaviour of one Game
NoGame == state = <<>>
NoSessions == heap = <<>> /\ sessions = <<>>
NoServer == rooms = <<>> /\ sockets = <<>> /\ outbox = <<>> /\ fetches = <<>>

\* createTestState() of engine.test.mjs, with a hand card, a tapped permanent
\* and a library card of the second player added (baseBoard of index.mjs has
\* tapped permanents and hand cards of both players); an absent tapped field
\* reads as false everywhere in the engine
InitialState ==
  GameState(<< Card("c1", "Card 1", "Player 1", "library", FALSE),
               Card("c2", "Card 2", "Player 1", "library", FALSE),
               Card("c3", "Card 3", "Player 1", "library", FALSE),
               Card("c4", "Card 4", "Player 1", "hand", FALSE),
               Card("c5", "Card 5", "Player 2", "battlefield", TRUE),
               Card("c6", "Card 6", "Player 2", "library", FALSE) >>,
            << Player("p1", "Player 1", Num(StartLife)),
               Player("p2", "Player 2", Num(StartLife)) >>,
            <<>>, <<>>)

\* what a client can put into an action: the bottom and the top card of a
\* library, a hand card, a tapped permanent, a card of the other player, and
\* an id that is not on the board
CardIdInputs == {"c1", "c3", "c4", "c5", "c6", "c9"}
PlayerIdInputs == {"p1", "p2", "p9"}
ActorIds == {"p1"}
\* toZone of a MOVE_CARD: the applier treats hand and library alike and every
\* other zone alike (cards reach the hand by draws); a client may also leave
\* toZone out of the payload
ZoneInputs == {"library", "graveyard", Undefined}
DrawAmounts == {Undef} \cup {Num(k) : k \in 0..MaxDraw}
LifeAmounts == {Num(k) : k \in {-5, -3, 5}}

NoAction == Action("", Undefined, EmptyPayload)

Init ==
  /\ state = Game(InitialState)
  /\ clock = 0
  /\ op = Operation("init", <<>>, FALSE, NoAction)
  /\ NoSessions
  /\ NoServer

\* one call of game.dispatch(action), allowed while fewer than limit operations ran
Dispatch(action, random, limit) ==
  /\ clock < limit
  /\ state' = dispatch(state, action, random, clock + 1)
  /\ clock' = clock + 1
  /\ op' = Operation("dispatch", random, processAction(state, action, random).threw, action)
  /\ UNCHANGED <<sessionVars, serverVars>>

PlayLand ==
  \E a \in ActorIds, c \in CardIdInputs :
    Dispatch(Action(ActionTypes.PLAY_LAND, a, PlayLandPayload(c, a)), <<>>, MaxSteps)

TapCard ==
  \E a \in ActorIds, c \in CardIdInputs :
    Dispatch(Action(ActionTypes.TAP_CARD, a, CardPayload(c)), <<>>, MaxSteps)

UntapCard ==
  \E a \in ActorIds, c \in CardIdInputs :
    Dispatch(Action(ActionTypes.UNTAP_CARD, a, CardPayload(c)), <<>>, MaxSteps)

MoveCard ==
  \E a \in ActorIds, c \in CardIdInputs, z \in ZoneInputs :
    Dispatch(Action(ActionTypes.MOVE_CARD, a, MoveCardPayload(c, z, Undefined)), <<>>, MaxSteps)

DrawCard ==
  \E p \in PlayerIdInputs, n \in DrawAmounts :
    Dispatch(Action(ActionTypes.DRAW_CARD, p, AmountPayload(p, n)), <<>>, MaxSteps)

ShuffleLibrary ==
  \E p \in PlayerIdInputs :
    \E random \in RandomChoices(Len(LibraryCards(state.board, NameOf(state.players, p)))) :
      Dispatch(Action(ActionTypes.SHUFFLE_LIBRARY, p, PlayerPayload(p)), random, MaxSteps)

ModifyLifeWithin(limit) ==
  \E p \in PlayerIdInputs, n \in LifeAmounts :
    Dispatch(Action(ActionTypes.MODIFY_LIFE, p, AmountPayload(p, n)), <<>>, limit)

ModifyLife == ModifyLifeWithin(MaxSteps)

\* a type outside the ones processAction switches on
UnknownAction ==
  \E a \in ActorIds :
    Dispatch(Action(ActionTypes.PASS_PRIORITY, a, PlayerPayload(a)), <<>>, MaxSteps)

\* one call of game.undo(), allowed while fewer than limit operations ran
UndoWithin(limit) ==
  /\ clock < limit
  /\ state' = undo(state, clock + 1)
  /\ clock' = clock + 1
  /\ op' = Operation("undo", <<>>, FALSE, NoAction)
  /\ UNCHANGED <<sessionVars, serverVars>>

Undo == UndoWithin(MaxSteps)

Next ==
  \/ PlayLand
  \/ TapCard
  \/ UntapCard
  \/ MoveCard
  \/ DrawCard
  \/ ShuffleLibrary
  \/ ModifyLife
  \/ UnknownAction
  \/ Undo

Spec == Init /\ [][Next]_vars

\* the session driven by modify-life dispatches and undos only
LifeModify == ModifyLifeWithin(MaxLifeSteps)

LifeUndo == UndoWithin(MaxLifeSteps)

NextLife ==
  \/ LifeModify
  \/ LifeUndo

SpecLife == Init /\ [][NextLife]_vars

\* the amounts of the modify-life payloads a client can send: numbers, and no
\* amount at all
PayloadAmounts == {Undef, Num(-3), Num(5)}

PayloadModify ==
  \E a \in ActorIds, amount \in PayloadAmounts :
    Dispatch(Action(ActionTypes.MODIFY_LIFE, a, AmountPayload(a, amount)), <<>>,
             MaxPayloadSteps)

PayloadUndo == UndoWithin(MaxPayloadSteps)

NextPayload ==
  \/ PayloadModify
  \/ PayloadUndo

SpecPayload == Init /\ [][NextPayload]_vars

\* the session of a player who draws from, shuffles and restores the library
DeckDrawAmounts == {Num(1), Num(2)}

DeckDraw ==
  \E n \in DeckDrawAmounts :
    Dispatch(Action(ActionTypes.DRAW_CARD, "p1", AmountPayload("p1", n)), <<>>, MaxDeckSteps)

DeckShuffle ==
  \E random \in RandomChoices(Len(LibraryCards(state.board, "Player 1"))) :
    Dispatch(Action(ActionTypes.SHUFFLE_LIBRARY, "p1", PlayerPayload("p1")), random, MaxDeckSteps)

DeckUndo == UndoWithin(MaxDeckSteps)

NextDeck ==
  \/ DeckDraw
  \/ DeckShuffle
  \/ DeckUndo

SpecDeck == Init /\ [][NextDeck]_vars

----------------------------------------------------------------------------
(* The rolling log of one session: applyEffect ADD_LOG and the server's    *)
(* addLog write the same state.log.                                        *)

\* the log after k earlier entries, the newest first
FilledLog(k) ==
  [i \in 1..k |-> LogEntry("Action", Detail(<<"No detail">>, Undef), 0 - i)]

\* how many entries the log holds when the behaviour starts
LogLengths == {0, LogCap - 2, LogCap - 1, LogCap}

\* what a client puts into a simulate_action message
LabelInputs == {"Action", "Note"}

InitLog ==
  /\ \E k \in LogLengths : state = [Game(InitialState) EXCEPT !.log = FilledLog(k)]
  /\ clock = 0
  /\ op = Operation("init", <<>>, FALSE, NoAction)
  /\ NoSessions
  /\ NoServer

\* a handler of the server calls addLog on the room of this session
AddLog ==
  /\ clock < MaxLogSteps
  /\ \E label \in LabelInputs :
       state' = addLog(state, label, Detail(<<"No detail">>, Undef), clock + 1)
  /\ clock' = clock + 1
  /\ op' = Operation("addLog", <<>>, FALSE, NoAction)
  /\ UNCHANGED <<sessionVars, serverVars>>

LogModifyLife == ModifyLifeWithin(MaxLogSteps)

LogUndo == UndoWithin(MaxLogSteps)

NextLog ==
  \/ AddLog
  \/ LogModifyLife
  \/ LogUndo

SpecLog == InitLog /\ [][NextLog]_vars

----------------------------------------------------------------------------
(* Two sessions: a = new Game(s1) and b = new Game(s2), where s1 and s2    *)
(* come from two calls of createTestState(), or b = new Game(s1).          *)

SessionIds == {"a", "b"}

\* references 1..n hold the objects of s1, n+1..2n those of s2
RefsFrom(base, n) == [i \in 1..n |-> base + i]

\* actions dispatched to a session: a tap, a move, a draw and a life change
SessionActionInputs ==
  { Action(ActionTypes.TAP_CARD, "p1", CardPayload("c1")),
    Action(ActionTypes.MOVE_CARD, "p1", MoveCardPayload("c4", "graveyard", Undefined)),
    Action(ActionTypes.DRAW_CARD, "p1", AmountPayload("p1", Num(1))),
    Action(ActionTypes.MODIFY_LIFE, "p1", AmountPayload("p1", Num(-5))) }

InitSessions ==
  /\ heap = Heap(InitialState.board \o InitialState.board,
                 InitialState.players \o InitialState.players)
  /\ \E sameValue \in BOOLEAN :
       LET n == Len(InitialState.board)
           m == Len(InitialState.players)
       IN sessions =
            [s \in SessionIds |->
               IF s = "a" \/ sameValue
                 THEN NewGame(RefsFrom(0, n), RefsFrom(0, m), InitialState.log)
                 ELSE NewGame(RefsFrom(n, n), RefsFrom(m, m), InitialState.log)]
  /\ clock = 0
  /\ op = Operation("init", <<>>, FALSE, NoAction)
  /\ NoGame
  /\ NoServer

\* sessions[s].dispatch(action)
SessionDispatch(s, action, random) ==
  /\ clock < MaxSessionSteps
  /\ LET result == dispatch(Resolve(sessions[s], heap), action, random, clock + 1)
     IN /\ heap' = Mutate(sessions[s], heap, result)
        /\ sessions' = [sessions EXCEPT ![s] = Rebind(sessions[s], heap, result)]
  /\ clock' = clock + 1
  /\ op' = Operation("dispatch", random,
                     processAction(Resolve(sessions[s], heap), action, random).threw, action)
  /\ UNCHANGED <<state, serverVars>>

SessionAction ==
  \E s \in SessionIds, action \in SessionActionInputs : SessionDispatch(s, action, <<>>)

SessionShuffle ==
  \E s \in SessionIds :
    \E random \in RandomChoices(Len(LibraryCards(Resolve(sessions[s], heap).board, "Player 1"))) :
      SessionDispatch(s, Action(ActionTypes.SHUFFLE_LIBRARY, "p1", PlayerPayload("p1")), random)

\* sessions[s].undo()
SessionUndo ==
  /\ clock < MaxSessionSteps
  /\ \E s \in SessionIds :
       LET result == undo(Resolve(sessions[s], heap), clock + 1)
       IN /\ heap' = Mutate(sessions[s], heap, result)
          /\ sessions' = [sessions EXCEPT ![s] = Rebind(sessions[s], heap, result)]
  /\ clock' = clock + 1
  /\ op' = Operation("undo", <<>>, FALSE, NoAction)
  /\ UNCHANGED <<state, serverVars>>

NextSessions ==
  \/ SessionAction
  \/ SessionShuffle
  \/ SessionUndo

SpecSessions == InitSessions /\ [][NextSessions]_vars

----------------------------------------------------------------------------
(* The server: connections send messages, one handler runs per message.    *)

SocketIds == {"s1", "s2"}
\* the name a connection starts with: Guest- and four hex digits
GuestNames == [s \in SocketIds |-> IF s = "s1" THEN "Guest-a1b2" ELSE "Guest-c3d4"]
\* data.room of a join: a code, or nothing
RoomInputs == {"ROOM-1", Undefined}
\* data.playerName of a join: a name, or nothing
NameInputs == {"Ann", Undefined}
\* data.action of a game_action: a tap of a tapped card, a tap of an untapped
\* one, a life change, a card put into the library, and a draw and a shuffle
\* whose payload names seat p2
GameActionInputs ==
  { Action(ActionTypes.TAP_CARD, Undefined, CardPayload("2")),
    Action(ActionTypes.TAP_CARD, Undefined, CardPayload("7")),
    Action(ActionTypes.MODIFY_LIFE, "p2", AmountPayload("p2", Num(-3))),
    Action(ActionTypes.MOVE_CARD, Undefined, MoveCardPayload("3", "library", Undefined)),
    Action(ActionTypes.DRAW_CARD, Undefined, AmountPayload("p2", Num(1))),
    Action(ActionTypes.SHUFFLE_LIBRARY, Undefined, PlayerPayload("p2")) }
\* data.label of a simulate_action: a label, or nothing
SimulateLabels == {"Note", Undefined}

InitServer ==
  /\ rooms = <<>>
  /\ sockets = [s \in SocketIds |-> Socket(Undefined, GuestNames[s], Undefined)]
  /\ outbox = [s \in SocketIds |-> <<>>]
  /\ fetches = <<>>
  /\ clock = 0
  /\ op = Operation("init", <<>>, FALSE, NoAction)
  /\ NoGame
  /\ NoSessions

\* what op holds of a message that carries no engine action: the player id of
\* the connection that sent it
SentBy(s) == Action("", sockets[s].playerId, EmptyPayload)

\* safeSend(msg) of the connection s, and nothing to the others
SendTo(s, msg) == [t \in SocketIds |-> IF t = s THEN <<msg>> ELSE <<>>]

\* broadcastSnapshot(room): one snapshot to every client of the room
Broadcast(code, room, conns) ==
  [t \in SocketIds |->
     IF t \in room.clients
       THEN <<SnapshotMessage(code, Snapshot(room.game, conns[t].playerId))>>
       ELSE <<>>]

\* case 'join'
JoinBy(senders, limit) ==
  /\ clock < limit
  /\ \E s \in senders, roomCode \in RoomInputs, playerName \in NameInputs :
       IF roomCode = Undefined
         THEN /\ outbox' = SendTo(s, ErrorMessage("Missing room code"))
              /\ UNCHANGED <<rooms, sockets>>
         ELSE LET name == IF playerName = Undefined THEN sockets[s].name ELSE playerName
                  found == getRoom(rooms, roomCode, clock + 1)
                  clients == found[roomCode].clients \cup {s}
                  takenIds == {sockets[c].playerId : c \in clients} \ {Undefined}
                  playerId == AssignPlayerId(takenIds)
                  seated == IF playerId # Undefined
                              THEN RenameSeat(found[roomCode].game, playerId, name)
                              ELSE found[roomCode].game
                  logged == addLog(seated, "Join",
                                   Detail(<<name, "joined room", roomCode, "as",
                                            IF playerId = Undefined THEN "Spectator"
                                                                    ELSE playerId>>, Undef),
                                   clock + 1)
                  room == Room(logged, clients)
                  conns == [sockets EXCEPT ![s] = Socket(roomCode, name, playerId)]
              IN /\ rooms' = [found EXCEPT ![roomCode] = room]
                 /\ sockets' = conns
                 /\ outbox' = Broadcast(roomCode, room, conns)
  /\ clock' = clock + 1
  /\ op' = Operation("join", <<>>, FALSE, NoAction)
  /\ UNCHANGED <<fetches, state, sessionVars>>

\* case 'game_action'
GameActionBy(senders, limit) ==
  /\ clock < limit
  /\ \E s \in senders, data \in GameActionInputs :
       /\ sockets[s].currentRoom # Undefined
       /\ LET code == sockets[s].currentRoom
              action == [data EXCEPT !.playerId = sockets[s].playerId]
              game == rooms[code].game
              completion == dispatchCompletion(game, action, <<>>)
              room == [rooms[code] EXCEPT !.game = dispatch(game, action, <<>>, clock + 1)]
          IN IF sockets[s].playerId = Undefined
               THEN /\ outbox' = SendTo(s, ErrorMessage("Spectators cannot perform actions"))
                    /\ op' = Operation("game_action", <<>>, FALSE, action)
                    /\ UNCHANGED rooms
               ELSE /\ rooms' = [rooms EXCEPT ![code] = room]
                    /\ outbox' = IF completion.thrown
                                   THEN SendTo(s, ErrorMessage("Action failed"))
                                   ELSE Broadcast(code, room, sockets)
                    /\ op' = Operation("game_action", <<>>,
                                       processAction(game, action, <<>>).threw, action)
  /\ clock' = clock + 1
  /\ UNCHANGED <<sockets, fetches, state, sessionVars>>

\* case 'undo'
UndoMessageBy(senders, limit) ==
  /\ clock < limit
  /\ \E s \in senders :
       /\ sockets[s].currentRoom # Undefined
       /\ LET code == sockets[s].currentRoom
              undone == undo(rooms[code].game, clock + 1)
              logged == addLog(undone, "Undo",
                               Detail(<<sockets[s].name, "undid the last action">>, Undef),
                               clock + 1)
              room == [rooms[code] EXCEPT !.game = logged]
          IN IF sockets[s].playerId = Undefined
               THEN /\ outbox' = SendTo(s, ErrorMessage("Spectators cannot undo"))
                    /\ op' = Operation("undo_message", <<>>, FALSE, SentBy(s))
                    /\ UNCHANGED rooms
               ELSE /\ rooms' = [rooms EXCEPT ![code] = room]
                    /\ outbox' = Broadcast(code, room, sockets)
                    /\ op' = Operation("undo_message", Undone(rooms[code].game), FALSE,
                                       SentBy(s))
  /\ clock' = clock + 1
  /\ UNCHANGED <<sockets, fetches, state, sessionVars>>

\* case 'simulate_action'
SimulateAction ==
  /\ clock < MaxServerSteps
  /\ \E s \in SocketIds, label \in SimulateLabels :
       /\ sockets[s].currentRoom # Undefined
       /\ LET code == sockets[s].currentRoom
              logged == addLog(rooms[code].game,
                               IF label = Undefined THEN "Action" ELSE label,
                               Detail(<<"No detail">>, Undef), clock + 1)
              room == [rooms[code] EXCEPT !.game = logged]
          IN /\ rooms' = [rooms EXCEPT ![code] = room]
             /\ outbox' = Broadcast(code, room, sockets)
       /\ op' = Operation("simulate_action", <<>>, FALSE, SentBy(s))
  /\ clock' = clock + 1
  /\ UNCHANGED <<sockets, fetches, state, sessionVars>>

\* case 'spectate'
Spectate ==
  /\ clock < MaxServerSteps
  /\ \E s \in SocketIds :
       /\ sockets[s].currentRoom # Undefined
       /\ LET code == sockets[s].currentRoom
              logged == addLog(rooms[code].game, "Spectate",
                               Detail(<<sockets[s].name, "entered spectate-only mode">>, Undef),
                               clock + 1)
              room == [rooms[code] EXCEPT !.game = logged]
          IN /\ rooms' = [rooms EXCEPT ![code] = room]
             /\ outbox' = Broadcast(code, room, sockets)
       /\ op' = Operation("spectate", <<>>, FALSE, SentBy(s))
  /\ clock' = clock + 1
  /\ UNCHANGED <<sockets, fetches, state, sessionVars>>

\* data.url of import_deck
UrlInputs == {"deck-1", Undefined}

\* no message to any connection
Silent == [t \in SocketIds |-> <<>>]

\* case 'import_deck', up to the call of fetchMoxfield
ImportDeckBy(senders, limit) ==
  /\ clock < limit
  /\ \E s \in senders, url \in UrlInputs :
       /\ sockets[s].currentRoom # Undefined
       /\ LET code == sockets[s].currentRoom
              logged == addLog(rooms[code].game, "Deck",
                               Detail(<<sockets[s].name,
                                        "tried to import a deck without a URL/id">>, Undef),
                               clock + 1)
          IN IF url = Undefined
               THEN /\ rooms' = [rooms EXCEPT ![code].game = logged]
                    /\ outbox' = SendTo(s, ErrorMessage("Missing deck url or id"))
                    /\ UNCHANGED fetches
               ELSE IF sockets[s].playerId = Undefined
                 THEN /\ outbox' = SendTo(s, ErrorMessage("You are not a player"))
                      /\ UNCHANGED <<rooms, fetches>>
                 ELSE /\ fetches' = Append(fetches, Fetch(s, sockets[s].playerId, code))
                      /\ outbox' = Silent
                      /\ UNCHANGED rooms
       /\ op' = Operation("import_deck", <<>>, FALSE, SentBy(s))
  /\ clock' = clock + 1
  /\ UNCHANGED <<sockets, state, sessionVars>>

\* the callbacks of import_deck: then, when the fetch succeeded, catch when it
\* failed; currentRoom and name are read from the connection's closure when
\* the callback runs, playerId is the constant the handler read
ImportSettledWithin(limit) ==
  /\ clock < limit
  /\ \E i \in 1..Len(fetches), succeeded \in BOOLEAN, swapped \in BOOLEAN :
       LET s == fetches[i].socket
           code == sockets[s].currentRoom
           game == rooms[code].game
           imported == addLog(ImportCards(game, fetches[i].playerId, clock + 1, swapped),
                              "Deck", Detail(<<sockets[s].name, "imported deck">>, Undef),
                              clock + 1)
           failed == addLog(game, "Deck",
                            Detail(<<sockets[s].name, "failed to import deck">>, Undef),
                            clock + 1)
           room == [rooms[code] EXCEPT !.game = IF succeeded THEN imported ELSE failed]
       IN /\ (~succeeded) => ~swapped
          /\ rooms' = [rooms EXCEPT ![code] = room]
          /\ outbox' = IF succeeded
                         THEN Broadcast(code, room, sockets)
                         ELSE SendTo(s, ErrorMessage("Failed to import deck"))
          /\ fetches' = SubSeq(fetches, 1, i - 1) \o SubSeq(fetches, i + 1, Len(fetches))
          /\ op' = Operation("import_settled", <<>>, ~succeeded,
                             Action("", fetches[i].playerId, EmptyPayload))
  /\ clock' = clock + 1
  /\ UNCHANGED <<sockets, state, sessionVars>>

\* makeSeed(): the code of a room that create_room opens, three random bytes
\* that no room of the server carries yet
SeedInputs == {"ROOM-2"}

\* case 'create_room'
CreateRoom ==
  /\ clock < MaxServerSteps
  /\ \E s \in SocketIds, code \in SeedInputs \ DOMAIN rooms :
       LET found == getRoom(rooms, code, clock + 1)
           room == Room(found[code].game, found[code].clients \cup {s})
           conns == [sockets EXCEPT ![s] = Socket(code, sockets[s].name, "p1")]
           snapshots == Broadcast(code, room, conns)
       IN /\ rooms' = [found EXCEPT ![code] = room]
          /\ sockets' = conns
          /\ outbox' = [snapshots EXCEPT ![s] = <<RoomCreatedMessage(code)>> \o @]
          /\ op' = Operation("create_room", <<>>, FALSE, SentBy(s))
  /\ clock' = clock + 1
  /\ UNCHANGED <<fetches, state, sessionVars>>

NextServer ==
  \/ JoinBy(SocketIds, MaxServerSteps)
  \/ GameActionBy(SocketIds, MaxServerSteps)
  \/ UndoMessageBy(SocketIds, MaxServerSteps)
  \/ SimulateAction
  \/ Spectate
  \/ ImportDeckBy(SocketIds, MaxServerSteps)
  \/ ImportSettledWithin(MaxServerSteps)
  \/ CreateRoom

SpecServer == InitServer /\ [][NextServer]_vars

----------------------------------------------------------------------------
(* One connection that joins, plays, imports a deck and undoes.             *)

ImportSockets == {"s1"}

NextImport ==
  \/ JoinBy(ImportSockets, MaxImportSteps)
  \/ GameActionBy(ImportSockets, MaxImportSteps)
  \/ ImportDeckBy(ImportSockets, MaxImportSteps)
  \/ ImportSettledWithin(MaxImportSteps)
  \/ UndoMessageBy(ImportSockets, MaxImportSteps)

SpecImport == InitServer /\ [][NextImport]_vars

----------------------------------------------------------------------------
(* Views of the state used by the properties.                              *)

Owners == {"Player 1", "Player 2"}

\* the ids of one owner's cards in one zone, in board order
ZoneOrder(board, owner, zone) ==
  LET There(c) == c.owner = owner /\ c.zone = zone
  IN Ids(SelectSeq(board, There))

\* the table of a state: each card's zone and tapped flag by id, the order of
\* each owner's cards within each zone, and each player's life
SameTable(s, t) ==
  /\ Len(s.board) = Len(t.board)
  /\ \A i \in 1..Len(s.board) :
       LET j == FindById(t.board, s.board[i].id)
       IN /\ j # 0
          /\ t.board[j].zone = s.board[i].zone
          /\ t.board[j].tapped = s.board[i].tapped
  /\ \A o \in Owners, z \in Zones : ZoneOrder(s.board, o, z) = ZoneOrder(t.board, o, z)
  /\ Len(s.players) = Len(t.players)
  /\ \A i \in 1..Len(s.players) : s.players[i].life = t.players[i].life

Accepted == op.kind = "dispatch" /\ ~op.threw
Rejected == op.kind = "dispatch" /\ op.threw
LastEntry == state.history[Len(state.history)]

----------------------------------------------------------------------------
(* The applier on its own: one effect applied to a state.                  *)

EffectZones == {"library", "hand"}

\* boards of the six cards with each card of Player 1 in library or in hand
EffectBoards ==
  {[i \in 1..Len(InitialState.board) |->
      IF i <= 4 THEN [InitialState.board[i] EXCEPT !.zone = zones[i]]
                ELSE InitialState.board[i]] : zones \in [1..4 -> EffectZones]}

\* ids an order names: cards of Player 1, and an id no card has
OrderIds == {"c1", "c2", "c3", "c9"}

\* payload.order: lists of ids, with repetitions, gaps and foreign ids
Orders == UNION {[1..n -> OrderIds] : n \in 0..MaxOrderLen}

InitEffects ==
  /\ \E board \in EffectBoards :
       state = GameState(board, InitialState.players, InitialState.log, <<>>)
  /\ clock = 0
  /\ op = Operation("init", <<>>, FALSE, NoAction)
  /\ NoSessions
  /\ NoServer

\* applyEffect(state, {type: SET_ZONE_ORDER, payload: {zone, owner, order}})
ApplyOrder ==
  /\ op.kind = "init"
  /\ \E zone \in EffectZones, owner \in Owners, order \in Orders :
       LET effect == Effect(EffectTypes.SET_ZONE_ORDER,
                            SetZoneOrderPayload(zone, owner, order,
                                                ZoneOrder(state.board, owner, zone)))
       IN /\ state' = applyEffect(state, effect, clock + 1)
          /\ op' = Operation("applyEffect", <<>>, FALSE, effect)
  /\ clock' = clock + 1
  /\ UNCHANGED <<sessionVars, serverVars>>

\* the inputs of the other effects: cards of the board and an id of no card,
\* a player and an id of no player
EffectCardIds == {"c1", "c5", "c9"}
EffectPlayerIds == {"p1", "p9"}
EffectDestinations == {"hand", "library", "battlefield", "graveyard"}
EffectAmounts == {Num(-3), Num(0), Num(5)}

\* fromZone as the processor fills it: the zone the card is in
ZoneOfCard(board, cardId) ==
  IF FindById(board, cardId) = 0 THEN "library" ELSE board[FindById(board, cardId)].zone

\* MOVE_ZONE effects, as DRAW_CARD and PLAY_LAND build them and, with an index,
\* as MOVE_CARD builds them
MoveEffects(board) ==
  {Effect(EffectTypes.MOVE_ZONE, MoveZonePayload(c, ZoneOfCard(board, c), z)) :
     c \in EffectCardIds, z \in EffectDestinations}
  \cup {Effect(EffectTypes.MOVE_ZONE,
               MoveZoneIndexPayload(c, ZoneOfCard(board, c), z, Undefined)) :
          c \in EffectCardIds, z \in EffectDestinations}

TapEffects ==
  {Effect(t, CardPayload(c)) : t \in {EffectTypes.TAP_CARD, EffectTypes.UNTAP_CARD},
                               c \in EffectCardIds}

LifeEffects ==
  {Effect(EffectTypes.MODIFY_LIFE, AmountPayload(p, n)) :
     p \in EffectPlayerIds, n \in EffectAmounts}

\* SET_ZONE_ORDER effects as SHUFFLE_LIBRARY builds them: previousOrder is the
\* order the zone is in
OrderEffects(board) ==
  {Effect(EffectTypes.SET_ZONE_ORDER,
          SetZoneOrderPayload(zone, owner, order, ZoneOrder(board, owner, zone))) :
     zone \in EffectZones, owner \in Owners, order \in Orders}

\* an ADD_LOG effect, and effects of a type the engine does not define
OtherEffects ==
  {Effect(EffectTypes.ADD_LOG, LogPayload("Note", Detail(<<"note">>, Undef))),
   Effect("NO_OP", EmptyPayload),
   Effect("DESTROY", CardPayload("c1"))}

\* applyEffect(state, effect) for the effects other than SET_ZONE_ORDER
ApplyEffect ==
  /\ op.kind = "init"
  /\ \E effect \in MoveEffects(state.board) \cup TapEffects \cup LifeEffects \cup OtherEffects :
       /\ state' = applyEffect(state, effect, clock + 1)
       /\ op' = Operation("applyEffect", <<>>, FALSE, effect)
  /\ clock' = clock + 1
  /\ UNCHANGED <<sessionVars, serverVars>>

\* invertEffect(effect) and invertEffect of its result; op keeps the effect and
\* the two results
InvertEffect ==
  /\ op.kind = "init"
  /\ \E effect \in MoveEffects(state.board) \cup TapEffects \cup LifeEffects
                     \cup OrderEffects(state.board) \cup OtherEffects :
       op' = Operation("invertEffect",
                       <<invertEffect(effect), invertEffect(invertEffect(effect))>>,
                       FALSE, effect)
  /\ clock' = clock + 1
  /\ UNCHANGED <<state, sessionVars, serverVars>>

NextEffects ==
  \/ ApplyOrder
  \/ ApplyEffect
  \/ InvertEffect

SpecEffects == InitEffects /\ [][NextEffects]_vars

----------------------------------------------------------------------------
(* Properties.                                                             *)

\* C1: for every accepted dispatch, undo() right after it restores every
\* card's zone and tapped flag, every life total and the order of the cards
\* within each owner's zone to their values before the dispatch.
C1_DispatchUndoRestores ==
  [][(op'.kind = "dispatch" /\ ~op'.threw) => SameTable(undo(state', clock' + 1), state)]_vars

\* C2: a dispatch whose action the processor rejects leaves board, players,
\* log and history as they were.
C2_RejectedChangesNothing ==
  [][(op'.kind = "dispatch" /\ op'.threw) =>
       /\ state'.board = state.board
       /\ state'.players = state.players
       /\ state'.log = state.log
       /\ state'.history = state.history]_vars

\* a tap of the already tapped card c5 was rejected
C2_Witness ==
  /\ Rejected
  /\ op.action.type = ActionTypes.TAP_CARD
  /\ op.action.payload.cardId = "c5"
  /\ state.board[FindById(state.board, "c5")].tapped

RECURSIVE AfterEffects(_, _, _, _)
\* the state after the first k effects of a list were applied one after another
AfterEffects(s, effects, k, now) ==
  IF k = 0 THEN s
  ELSE applyEffect(AfterEffects(s, effects, k - 1, now), effects[k], now)

\* C3: an accepted dispatch applies every effect the processor returned, in
\* order, and appends one history entry holding the action and those effects;
\* the earlier entries stay.
C3_AcceptedAppliesAndRecords ==
  [][(op'.kind = "dispatch" /\ ~op'.threw) =>
       LET effects == processAction(state, op'.action, op'.random).effects
           after == AfterEffects(state, effects, Len(effects), clock')
       IN /\ state'.board = after.board
          /\ state'.players = after.players
          /\ state'.log = after.log
          /\ Len(state'.history) = Len(state.history) + 1
          /\ SubSeq(state'.history, 1, Len(state.history)) = state.history
          /\ state'.history[Len(state'.history)].action = op'.action
          /\ state'.history[Len(state'.history)].effects = effects]_vars

\* a draw of two cards was accepted: two moves and a log entry were applied
C3_Witness ==
  /\ Accepted
  /\ op.action.type = ActionTypes.DRAW_CARD
  /\ Len(LastEntry.effects) = 3
  /\ ZoneOrder(state.board, "Player 1", "hand") = <<"c2", "c3", "c4">>
  /\ Len(state.log) >= 1

\* C4: undo() on a non-empty history removes exactly its last entry and adds
\* none; the history grows only by the entry of an action dispatched in that
\* very step, so a popped entry never comes back.
C4_UndoPopsLast ==
  [][/\ (op'.kind = "undo" /\ state.history # <<>>) =>
          state'.history = SubSeq(state.history, 1, Len(state.history) - 1)
     /\ (op'.kind = "undo" /\ state.history = <<>>) => state'.history = <<>>
     /\ (op'.kind = "dispatch") =>
          \/ state'.history = state.history
          \/ /\ Len(state'.history) = Len(state.history) + 1
             /\ SubSeq(state'.history, 1, Len(state.history)) = state.history
             /\ state'.history[Len(state'.history)].action = op'.action
             /\ state'.history[Len(state'.history)].timestamp = clock']_vars

\* a dispatch, its undo, and a later dispatch: the history holds the later
\* entry only
C4_Witness ==
  /\ clock = 3
  /\ Accepted
  /\ Len(state.history) = 1
  /\ LastEntry.timestamp = 3
  /\ Len(state.log) = 2

\* C5: undo() on an empty history changes nothing: history stays empty and
\* board, players and log are as before.
C5_UndoEmptyNoOp ==
  [][(op'.kind = "undo" /\ state.history = <<>>) =>
       /\ state'.history = <<>>
       /\ state'.board = state.board
       /\ state'.players = state.players
       /\ state'.log = state.log]_vars

\* undo() was the first operation of the session
C5_Witness ==
  /\ op.kind = "undo"
  /\ clock = 1
  /\ state.history = <<>>

\* the amount a draw asks for: const { amount = 1 } = action.payload
RequestedAmount(action) ==
  IF action.payload.amount = Undef THEN 1 ELSE action.payload.amount.n

\* the action is a draw for a player of the session
IsDraw(action, players) ==
  /\ action.type = ActionTypes.DRAW_CARD
  /\ FindById(players, action.payload.playerId) # 0

\* the cards with the given ids are in hand afterwards and every other card
\* is exactly as it was, at its place in the board
MovedToHand(before, after, ids) ==
  /\ Len(after) = Len(before)
  /\ \A i \in 1..Len(before) :
       IF \E k \in 1..Len(ids) : ids[k] = before[i].id
         THEN after[i].id = before[i].id /\ after[i].zone = "hand"
         ELSE after[i] = before[i]

\* C6: a draw of k cards, 0 <= k <= N, from a library of N cards moves exactly
\* the last k library cards of that player to hand, leaves the first N - k in
\* library in their order and changes no other card.
C6_DrawMovesLastK ==
  [][(op'.kind = "dispatch" /\ IsDraw(op'.action, state.players)) =>
       LET library == Ids(LibraryCards(state.board,
                                       NameOf(state.players, op'.action.payload.playerId)))
           N == Len(library)
           k == RequestedAmount(op'.action)
       IN (0 <= k /\ k <= N) =>
            /\ ~op'.threw
            /\ MovedToHand(state.board, state'.board, SubSeq(library, N - k + 1, N))
            /\ Ids(LibraryCards(state'.board,
                                NameOf(state.players, op'.action.payload.playerId)))
                 = SubSeq(library, 1, N - k)]_vars

\* C7: a draw of more cards than the library holds is accepted, moves every
\* library card of that player to hand and nothing else, and records one
\* history entry.
C7_DrawMoreThanLibrary ==
  [][(op'.kind = "dispatch" /\ IsDraw(op'.action, state.players)) =>
       LET library == Ids(LibraryCards(state.board,
                                       NameOf(state.players, op'.action.payload.playerId)))
       IN RequestedAmount(op'.action) > Len(library) =>
            /\ ~op'.threw
            /\ MovedToHand(state.board, state'.board, library)
            /\ LibraryCards(state'.board,
                            NameOf(state.players, op'.action.payload.playerId)) = <<>>
            /\ state'.players = state.players
            /\ Len(state'.history) = Len(state.history) + 1
            /\ state'.history[Len(state'.history)].action = op'.action]_vars

\* four cards were asked of the three-card library of Player 1: all three are
\* in hand and the draw is recorded
C7_Witness ==
  /\ Accepted
  /\ op.action.type = ActionTypes.DRAW_CARD
  /\ op.action.payload.amount = Num(4)
  /\ ZoneOrder(state.board, "Player 1", "hand") = <<"c1", "c2", "c3", "c4">>
  /\ Len(state.history) = 1

\* the cards of a board as a bag: how often each card record occurs
Occurrences(board, card) == Cardinality({i \in 1..Len(board) : board[i] = card})

\* C8: a shuffle changes only the order of the board: the library of the
\* shuffling owner holds the same ids, and the board holds the same cards with
\* the same zone, owner and tapped flag, none added, removed or duplicated.
C8_ShufflePreservesMembership ==
  [][(op'.kind = "dispatch" /\ op'.action.type = ActionTypes.SHUFFLE_LIBRARY) =>
       LET owner == NameOf(state.players, op'.action.payload.playerId)
           libraryBefore == Ids(LibraryCards(state.board, owner))
           libraryAfter == Ids(LibraryCards(state'.board, owner))
       IN /\ {libraryBefore[i] : i \in 1..Len(libraryBefore)}
               = {libraryAfter[i] : i \in 1..Len(libraryAfter)}
          /\ Len(libraryAfter) = Len(libraryBefore)
          /\ Len(state'.board) = Len(state.board)
          /\ \A i \in 1..Len(state.board) :
               Occurrences(state'.board, state.board[i]) = Occurrences(state.board, state.board[i])]_vars

\* a shuffle of Player 1's library was accepted and produced another order
C8_Witness ==
  /\ Accepted
  /\ op.action.type = ActionTypes.SHUFFLE_LIBRARY
  /\ LastEntry.effects[1].payload.order # LastEntry.effects[1].payload.previousOrder
  /\ ZoneOrder(state.board, "Player 1", "library") = LastEntry.effects[1].payload.order
  /\ Len(LastEntry.effects[1].payload.order) = 3

RECURSIVE LifeDelta(_, _)
\* the sum of the modify-life amounts that the entries of a history hold for
\* one player
LifeDelta(history, playerId) ==
  IF history = <<>> THEN 0
  ELSE LET last == history[Len(history)].action
       IN LifeDelta(SubSeq(history, 1, Len(history) - 1), playerId)
            + (IF last.type = ActionTypes.MODIFY_LIFE /\ last.payload.playerId = playerId
                 THEN last.payload.amount.n ELSE 0)

\* C9: every life total is its starting value plus the deltas of the
\* modify-life entries still in the history; so n modify-life dispatches
\* followed by n undos, which leave the history as it was (empty when it
\* started empty), leave every life total as it was.
C9_LifeRestored ==
  /\ \A i \in 1..Len(state.players) :
       state.players[i].life
         = Num(InitialState.players[i].life.n + LifeDelta(state.history, state.players[i].id))
  /\ state.history = <<>> =>
       \A i \in 1..Len(state.players) : state.players[i].life = Num(StartLife)

\* two life changes were dispatched and both undone
C9_Witness ==
  /\ op.kind = "undo"
  /\ clock = 4
  /\ state.history = <<>>
  /\ Len(state.log) = 2
  /\ state.log[1].detail.text = <<"Player 1", "lost", "life">>
  /\ state.log[2].detail.text = <<"Player 1", "gained", "life">>
  /\ state.log[1].detail.amount = Num(5)
  /\ state.log[2].detail.amount = Num(5)

\* the types processAction has a case for
KnownActionTypes ==
  {ActionTypes.PLAY_LAND, ActionTypes.TAP_CARD, ActionTypes.UNTAP_CARD, ActionTypes.MOVE_CARD,
   ActionTypes.DRAW_CARD, ActionTypes.SHUFFLE_LIBRARY, ActionTypes.MODIFY_LIFE}

\* C10: a dispatch of an action of unknown type is not rejected with an
\* error and leaves board, players and log as they were.
C10_UnknownTypeNoOp ==
  [][(op'.kind = "dispatch" /\ op'.action.type \notin KnownActionTypes) =>
       /\ ~op'.threw
       /\ state'.board = state.board
       /\ state'.players = state.players
       /\ state'.log = state.log]_vars

\* an action of type PASS_PRIORITY went through dispatch after a logged action
C10_Witness ==
  /\ op.kind = "dispatch"
  /\ op.action.type = ActionTypes.PASS_PRIORITY
  /\ clock = 2
  /\ Len(state.log) = 1

\* C11: a dispatch of an action of unknown type records no history entry.
C11_UnknownTypeNoHistory ==
  [][(op'.kind = "dispatch" /\ op'.action.type \notin KnownActionTypes) =>
       state'.history = state.history]_vars

\* C12: a play-from-hand action on a card the acting player does not own is
\* rejected: no card moves and the history stays as it was.
C12_PlayLandNeedsOwner ==
  [][(op'.kind = "dispatch" /\ op'.action.type = ActionTypes.PLAY_LAND) =>
       LET i == FindById(state.board, op'.action.payload.cardId)
       IN (/\ i # 0
           /\ state.board[i].owner # op'.action.playerId
           /\ state.board[i].owner # NameOf(state.players, op'.action.playerId)) =>
            /\ op'.threw
            /\ state'.board = state.board
            /\ state'.history = state.history]_vars

\* C13: a play-from-hand action is accepted only if the card exists and is in
\* hand, and then the card ends in battlefield; with the card missing or in
\* another zone the action is rejected and the board stays as it was.
C13_PlayLandFromHandOnly ==
  [][(op'.kind = "dispatch" /\ op'.action.type = ActionTypes.PLAY_LAND) =>
       LET cardId == op'.action.payload.cardId
           i == FindById(state.board, cardId)
       IN /\ ~op'.threw =>
               /\ i # 0
               /\ state.board[i].zone = "hand"
               /\ state'.board[FindById(state'.board, cardId)].zone = "battlefield"
          /\ (i = 0 \/ state.board[i].zone # "hand") =>
               /\ op'.threw
               /\ state'.board = state.board]_vars

\* the hand card c4 was played and lies on the battlefield
C13_Witness ==
  /\ Accepted
  /\ op.action.type = ActionTypes.PLAY_LAND
  /\ op.action.payload.cardId = "c4"
  /\ state.board[FindById(state.board, "c4")].zone = "battlefield"

\* C14: a tap is accepted exactly when the card exists and is not tapped, an
\* untap exactly when the card exists and is tapped; a rejected one changes
\* neither the board nor the history.
C14_TapUntapGuards ==
  [][(op'.kind = "dispatch"
        /\ op'.action.type \in {ActionTypes.TAP_CARD, ActionTypes.UNTAP_CARD}) =>
       LET i == FindById(state.board, op'.action.payload.cardId)
           isTap == op'.action.type = ActionTypes.TAP_CARD
           allowed == i # 0 /\ (state.board[i].tapped <=> ~isTap)
       IN /\ ~op'.threw <=> allowed
          /\ ~allowed =>
               /\ state'.board = state.board
               /\ state'.history = state.history]_vars

\* c1 was tapped by an accepted tap, and a second tap of it was rejected
C14_Witness ==
  /\ Rejected
  /\ op.action.type = ActionTypes.TAP_CARD
  /\ op.action.payload.cardId = "c1"
  /\ Len(state.history) = 1
  /\ LastEntry.action.type = ActionTypes.TAP_CARD
  /\ state.board[FindById(state.board, "c1")].tapped

\* the action types whose payload names the player they act on
PlayerActionTypes ==
  {ActionTypes.DRAW_CARD, ActionTypes.SHUFFLE_LIBRARY, ActionTypes.MODIFY_LIFE}

\* C16: a draw, shuffle or modify-life that names a player id absent from the
\* state is rejected: board, players, log and history stay as they were.
C16_UnknownPlayerRejected ==
  [][(/\ op'.kind = "dispatch"
      /\ op'.action.type \in PlayerActionTypes
      /\ FindById(state.players, op'.action.payload.playerId) = 0) =>
       /\ op'.threw
       /\ state'.board = state.board
       /\ state'.players = state.players
       /\ state'.log = state.log
       /\ state'.history = state.history]_vars

\* C17: every card's zone is one of the seven zones.
C17_ZonesClosed ==
  \A i \in 1..Len(state.board) : state.board[i].zone \in Zones

\* C18: no card in hand or library is tapped.
C18_NoTappedOffBattlefield ==
  \A i \in 1..Len(state.board) :
    state.board[i].zone \in {"hand", "library"} => ~state.board[i].tapped

\* state.log[0] after an entry was added
NewestEntry(log) == log[1]

\* the ADD_LOG effects among the effects of an action
LogEffects(effects) ==
  LET IsLog(e) == e.type = EffectTypes.ADD_LOG
  IN SelectSeq(effects, IsLog)

\* the log after one entry was put in front of it: the entry at index 0, the
\* previous entries behind it in their order, the oldest dropped beyond the cap
Rolled(before, after, now) ==
  /\ after # <<>>
  /\ NewestEntry(after).timestamp = now
  /\ Tail(after) = SubSeq(before, 1, Min(Len(before), LogCap - 1))

\* C19: the log never holds more than 50 entries; every add-log-entry, by an
\* effect of a dispatch or by the server's addLog, puts the new record at
\* index 0, keeps the previous records in order behind it and drops only the
\* oldest beyond 50; nothing else changes the log.
C19_LogRolls ==
  [][/\ Len(state.log) <= LogCap
     /\ Len(state'.log) <= LogCap
     /\ op'.kind = "addLog" => Rolled(state.log, state'.log, clock')
     /\ (op'.kind = "dispatch" /\ ~op'.threw) =>
          LET added == LogEffects(processAction(state, op'.action, op'.random).effects)
          IN /\ Len(added) = 1
             /\ Rolled(state.log, state'.log, clock')
             /\ NewestEntry(state'.log).label = added[1].payload.label
             /\ NewestEntry(state'.log).detail = added[1].payload.detail
     /\ (op'.kind = "undo" \/ op'.threw) => state'.log = state.log]_vars

\* two entries were added to a log of 49: the log holds 50, the two new ones
\* in front, and the oldest of the 49 is gone
C19_Witness ==
  /\ clock = 2
  /\ Len(state.log) = LogCap
  /\ state.log[1].timestamp = 2
  /\ state.log[2].timestamp = 1
  /\ state.log[3].timestamp = 0 - 1
  /\ state.log[LogCap].timestamp = 0 - (LogCap - 2)

\* C20: an operation on one session changes nothing that another session
\* shows: every step leaves the board, players, log and history of all
\* sessions but one as they were.
C20_SessionsIndependent ==
  [][\E s \in SessionIds :
       \A t \in SessionIds \ {s} :
         Resolve(sessions'[t], heap') = Resolve(sessions[t], heap)]_vars

\* C15: when the processor rejects the action of a game_action message, the
\* call of dispatch ends for its caller otherwise than an accepted one (which
\* returns undefined), and the server sends an error message.
C15_RejectionReported ==
  [][(op'.kind = "game_action" /\ op'.threw) =>
       /\ \E s \in SocketIds : \E k \in 1..Len(outbox'[s]) : outbox'[s][k].type = "error"
       /\ \A code \in DOMAIN rooms :
            processAction(rooms[code].game, op'.action, op'.random).threw =>
              dispatchCompletion(rooms[code].game, op'.action, op'.random)
                # Completion(FALSE, Undefined)]_vars

\* the actions a history holds, in the order they were dispatched
HistoryActions(history) == [i \in 1..Len(history) |-> history[i].action]

\* C21: shuffles are determined by the seed: two sessions that start from the
\* same state and accept the same sequence of actions, shuffles included, hold
\* their boards in the same order.
C21_ShuffleDeterministic ==
  (/\ clock = Len(sessions["a"].history) + Len(sessions["b"].history)
   /\ HistoryActions(sessions["a"].history) = HistoryActions(sessions["b"].history))
    => Ids(Resolve(sessions["a"], heap).board) = Ids(Resolve(sessions["b"], heap).board)

RECURSIVE Replay(_, _, _)
\* a replay: the state after the effects of the first k entries of a history
\* were applied again, entry after entry and each entry's effects in order, to
\* a starting state; the processor is not run
Replay(s, history, k) ==
  IF k = 0 THEN s
  ELSE AfterEffects(Replay(s, history, k - 1), history[k].effects,
                    Len(history[k].effects), history[k].timestamp)

\* C22: after any dispatches and undos, the effects of the entries now in the
\* history, applied again in order to the initial state, give the card zones,
\* tapped flags, order within each zone and life totals of the current state.
C22_ReplayReproduces ==
  SameTable(Replay(Game(InitialState), state.history, Len(state.history)), state)

RoomMessageKinds == {"game_action", "undo_message", "simulate_action", "spectate"}

\* C24: spectators are read-only: a message of a connection without a player
\* id leaves the game state of every room as it was.
C24_SpectatorsReadOnly ==
  [][(op'.kind \in RoomMessageKinds /\ op'.action.playerId = Undefined) =>
       \A code \in DOMAIN rooms : rooms'[code].game = rooms[code].game]_vars

\* the effects of an entry that undo has to take back, in the order dispatch
\* applied them: those whose inverse is not the no-op
Undoable(effects) ==
  LET HasInverse(e) == invertEffect(e).type # "NO_OP"
  IN SelectSeq(effects, HasInverse)

\* C25: undo() applies the inverses of the popped entry's effects in exactly the
\* reverse of the order dispatch applied them, the last applied effect first,
\* and leaves out only the no-op inverses of log effects.
C25_UndoReversesOrder ==
  [][(op'.kind = "undo" /\ state.history # <<>>) =>
       LET entry == state.history[Len(state.history)]
           applied == SelectSeq(InverseEffects(entry.effects), IsNotNoOp)
           done == Undoable(entry.effects)
           popped == [state EXCEPT !.history = SubSeq(@, 1, Len(@) - 1)]
       IN /\ Len(applied) = Len(done)
          /\ \A k \in 1..Len(applied) : applied[k] = invertEffect(done[Len(done) + 1 - k])
          /\ \A i \in 1..Len(entry.effects) :
               entry.effects[i].type # EffectTypes.ADD_LOG => invertEffect(entry.effects[i]) # NoOp
          /\ state' = AfterEffects(popped, applied, Len(applied), clock')]_vars

\* a draw of two cards, with its two moves and its log effect, was undone: both
\* cards are back in the library
C25_Witness ==
  /\ op.kind = "undo"
  /\ clock = 2
  /\ state.history = <<>>
  /\ Len(state.log) = 1
  /\ state.log[1].detail.amount = Num(2)
  /\ ZoneOrder(state.board, "Player 1", "library") = <<"c1", "c2", "c3">>

\* C26: multi-step undo is exact: after n accepted dispatches of mixed types
\* and n undos, which leave the history empty as it started, every card's zone
\* and tapped flag, the order within each owner's library and every life total
\* are what they were at the start.
C26_MultiStepUndoExact ==
  state.history = <<>> =>
    /\ \A i \in 1..Len(InitialState.board) :
         LET j == FindById(state.board, InitialState.board[i].id)
         IN /\ j # 0
            /\ state.board[j].zone = InitialState.board[i].zone
            /\ state.board[j].tapped = InitialState.board[i].tapped
    /\ \A o \in Owners :
         ZoneOrder(state.board, o, "library") = ZoneOrder(InitialState.board, o, "library")
    /\ \A i \in 1..Len(InitialState.players) :
         state.players[i].life = InitialState.players[i].life

\* C27: the move effects of a draw of k cards are ordered top-first: the first
\* moves the last (top) library card, the k-th moves the k-th card from the
\* top, and exactly one log effect follows them.
C27_DrawEffectsTopFirst ==
  [][(op'.kind = "dispatch" /\ ~op'.threw /\ op'.action.type = ActionTypes.DRAW_CARD) =>
       LET library == Ids(LibraryCards(state.board,
                                       NameOf(state.players, op'.action.payload.playerId)))
           N == Len(library)
           effects == state'.history[Len(state'.history)].effects
           k == Len(effects) - 1
       IN /\ k >= 0
          /\ \A i \in 1..k :
               /\ effects[i].type = EffectTypes.MOVE_ZONE
               /\ effects[i].payload.cardId = library[N + 1 - i]
          /\ effects[k + 1].type = EffectTypes.ADD_LOG]_vars

\* each element of one sequence occurs exactly once in it and once in the other
IsPermutation(a, b) ==
  /\ Len(a) = Len(b)
  /\ \A i \in 1..Len(a) :
       /\ Cardinality({j \in 1..Len(a) : a[j] = a[i]}) = 1
       /\ Cardinality({j \in 1..Len(b) : b[j] = a[i]}) = 1

\* C28: an accepted shuffle records exactly one set-zone-order effect followed
\* by exactly one log effect; previousOrder is the owner's library ids in
\* board order before the shuffle and order is a permutation of previousOrder,
\* each id exactly once, whatever the random choices were.
C28_ShuffleEffects ==
  [][(op'.kind = "dispatch" /\ ~op'.threw /\ op'.action.type = ActionTypes.SHUFFLE_LIBRARY) =>
       LET owner == NameOf(state.players, op'.action.payload.playerId)
           effects == state'.history[Len(state'.history)].effects
       IN /\ Len(effects) = 2
          /\ effects[1].type = EffectTypes.SET_ZONE_ORDER
          /\ effects[2].type = EffectTypes.ADD_LOG
          /\ effects[1].payload.zone = "library"
          /\ effects[1].payload.owner = owner
          /\ effects[1].payload.previousOrder = ZoneOrder(state.board, owner, "library")
          /\ IsPermutation(effects[1].payload.order, effects[1].payload.previousOrder)]_vars

\* a library of two cards, left by a draw, was shuffled with the random choice
\* that swaps them
C28_Witness ==
  /\ Accepted
  /\ op.action.type = ActionTypes.SHUFFLE_LIBRARY
  /\ op.random = <<0>>
  /\ Len(state.history) = 2
  /\ LastEntry.effects[1].payload.previousOrder = <<"c1", "c2">>
  /\ LastEntry.effects[1].payload.order = <<"c2", "c1">>

\* C29: a shuffle followed at once by undo() restores the id sequence of the
\* whole board list, not only the library's relative order, to what it was
\* before the shuffle.
C29_ShuffleUndoRestoresBoard ==
  [][(op'.kind = "dispatch" /\ ~op'.threw /\ op'.action.type = ActionTypes.SHUFFLE_LIBRARY) =>
       Ids(undo(state', clock' + 1).board) = Ids(state.board)]_vars

\* C30: set-zone-order for (zone, owner, order) leaves the board with the same
\* cards; the cards of that zone and owner stand in the sequence order gives,
\* those whose id order lacks behind all listed ones; ids of order that are not
\* in the zone move nothing; every other card keeps its place relative to the
\* other cards.
C30_SetZoneOrder ==
  [][(op'.kind = "applyEffect" /\ op'.action.type = EffectTypes.SET_ZONE_ORDER) =>
       LET zone == op'.action.payload.zone
           owner == op'.action.payload.owner
           order == op'.action.payload.order
           There(c) == c.zone = zone /\ c.owner = owner
           Elsewhere(c) == ~There(c)
           Listed(id) == \E k \in 1..Len(order) : order[k] = id
           First(id) == CHOOSE k \in 1..Len(order) :
                          order[k] = id /\ \A m \in 1..(k - 1) : order[m] # id
           ids == Ids(SelectSeq(state'.board, There))
       IN /\ Len(state'.board) = Len(state.board)
          /\ \A i \in 1..Len(state.board) :
               Occurrences(state'.board, state.board[i]) = Occurrences(state.board, state.board[i])
          /\ \A i \in 1..Len(ids), j \in 1..Len(ids) :
               i < j => /\ Listed(ids[j]) => Listed(ids[i])
                        /\ (Listed(ids[i]) /\ Listed(ids[j])) => First(ids[i]) < First(ids[j])
          /\ SelectSeq(state'.board, Elsewhere) = SelectSeq(state.board, Elsewhere)]_vars

\* the library of Player 1 held c1, c2, c3 and c4 and was ordered by a list
\* that names c3 twice, the id c9 of no card, and neither c1 nor c2 nor c4
C30_Witness ==
  /\ op.kind = "applyEffect"
  /\ op.action.type = EffectTypes.SET_ZONE_ORDER
  /\ op.action.payload.zone = "library"
  /\ op.action.payload.owner = "Player 1"
  /\ op.action.payload.order = <<"c3", "c9", "c3">>
  /\ ZoneOrder(state.board, "Player 1", "library") = <<"c3", "c1", "c2", "c4">>

\* the kind invertEffect pairs with each reversible kind
PairedKind(type) ==
  CASE type = EffectTypes.TAP_CARD -> EffectTypes.UNTAP_CARD
    [] type = EffectTypes.UNTAP_CARD -> EffectTypes.TAP_CARD
    [] OTHER -> type

\* the kinds of effect that undo takes back
ReversibleKinds ==
  {EffectTypes.MOVE_ZONE, EffectTypes.TAP_CARD, EffectTypes.UNTAP_CARD,
   EffectTypes.MODIFY_LIFE, EffectTypes.SET_ZONE_ORDER}

\* two effects agree on kind and on the payload fields of that kind
SameEffect(e, f) ==
  /\ e.type = f.type
  /\ e.type = EffectTypes.MOVE_ZONE =>
       /\ e.payload.cardId = f.payload.cardId
       /\ e.payload.fromZone = f.payload.fromZone
       /\ e.payload.toZone = f.payload.toZone
  /\ e.type \in {EffectTypes.TAP_CARD, EffectTypes.UNTAP_CARD} =>
       e.payload.cardId = f.payload.cardId
  /\ e.type = EffectTypes.MODIFY_LIFE =>
       /\ e.payload.playerId = f.payload.playerId
       /\ e.payload.amount = f.payload.amount
  /\ e.type = EffectTypes.SET_ZONE_ORDER =>
       /\ e.payload.zone = f.payload.zone
       /\ e.payload.owner = f.payload.owner
       /\ e.payload.order = f.payload.order
       /\ e.payload.previousOrder = f.payload.previousOrder

\* C31: invertEffect answers for every effect; a move-zone, tap, untap,
\* modify-life or set-zone-order effect inverts to the kind paired with it and
\* its inverse inverts back to it, equal on kind, card or player id, zones,
\* amount and both orders; add-log and unknown kinds invert to the no-op.
C31_InvertInvolution ==
  op.kind = "invertEffect" =>
    LET e == op.action
        once == op.random[1]
        twice == op.random[2]
    IN IF e.type \in ReversibleKinds
         THEN /\ once.type = PairedKind(e.type)
              /\ SameEffect(twice, e)
         ELSE once = NoOp

\* a set-zone-order effect that reorders the library c1, c2, c3 of Player 1 to
\* c3, c1 was inverted: the inverse asks for the order c1, c2, c3
C31_Witness ==
  /\ op.kind = "invertEffect"
  /\ op.action.type = EffectTypes.SET_ZONE_ORDER
  /\ op.action.payload.order = <<"c3", "c1">>
  /\ op.random[1].payload.order = <<"c1", "c2", "c3">>
  /\ op.random[1].payload.previousOrder = <<"c3", "c1">>

\* C32: applying a move-zone effect for a card of the board changes only that
\* card: its zone becomes the destination and its tapped flag is cleared if and
\* only if the destination is hand or library; the card keeps its place in the
\* board, and every other card, the players, the log and the history stay.
C32_MoveZoneFrame ==
  [][(op'.kind = "applyEffect" /\ op'.action.type = EffectTypes.MOVE_ZONE
        /\ FindById(state.board, op'.action.payload.cardId) # 0) =>
       LET i == FindById(state.board, op'.action.payload.cardId)
           toZone == op'.action.payload.toZone
       IN /\ Len(state'.board) = Len(state.board)
          /\ state'.board[i].id = state.board[i].id
          /\ state'.board[i].name = state.board[i].name
          /\ state'.board[i].owner = state.board[i].owner
          /\ state'.board[i].zone = toZone
          /\ state'.board[i].tapped = (state.board[i].tapped /\ toZone \notin {"hand", "library"})
          /\ \A j \in 1..Len(state.board) : j # i => state'.board[j] = state.board[j]
          /\ state'.players = state.players
          /\ state'.log = state.log
          /\ state'.history = state.history]_vars

\* the tapped card c5 was moved from the battlefield to the graveyard and is
\* still tapped
C32_Witness ==
  /\ op.kind = "applyEffect"
  /\ op.action.type = EffectTypes.MOVE_ZONE
  /\ op.action.payload.cardId = "c5"
  /\ op.action.payload.toZone = "graveyard"
  /\ state.board[FindById(state.board, "c5")].zone = "graveyard"
  /\ state.board[FindById(state.board, "c5")].tapped

\* the cards of a board that a deck import put there
Imported(board) ==
  LET FromDeck(c) == \E k \in 1..Len(ImportIds) : ImportIds[k] = c.id
  IN SelectSeq(board, FromDeck)

\* effects on a card or a player that a game does not hold
AbsentTargets(game) ==
  {e \in MoveEffects(game.board) \cup TapEffects \cup LifeEffects :
     IF e.type = EffectTypes.MODIFY_LIFE
       THEN FindById(game.players, e.payload.playerId) = 0
       ELSE FindById(game.board, e.payload.cardId) = 0}

\* the effects of a sequence whose card is not on the board
OnAbsentCards(effects, board) ==
  LET Absent(e) == /\ e.type \in {EffectTypes.MOVE_ZONE, EffectTypes.TAP_CARD,
                                    EffectTypes.UNTAP_CARD}
                   /\ FindById(board, e.payload.cardId) = 0
  IN SelectSeq(effects, Absent)

\* C33: a move-zone, tap or untap effect on a card that is not on the board and
\* a modify-life effect on a player that does not exist leave the whole state
\* as it was; an undo whose entry names cards that a deck import removed goes
\* through: the history loses the entry, the snapshot is broadcast, and the
\* imported cards, the board and the players are the ones before the undo.
C33_AbsentTargetsTolerated ==
  [][/\ \A code \in DOMAIN rooms : \A e \in AbsentTargets(rooms[code].game) :
          applyEffect(rooms[code].game, e, clock) = rooms[code].game
     /\ \A code \in DOMAIN rooms :
          (/\ op'.kind = "undo_message"
           /\ rooms'[code] # rooms[code]
           /\ OnAbsentCards(op'.random, rooms[code].game.board) # <<>>)
            => /\ ~op'.threw
               /\ Imported(rooms'[code].game.board) = Imported(rooms[code].game.board)
               /\ OnAbsentCards(op'.random, rooms[code].game.board) = op'.random
                    => /\ rooms'[code].game.board = rooms[code].game.board
                       /\ rooms'[code].game.players = rooms[code].game.players
               /\ Len(rooms'[code].game.history) = Len(rooms[code].game.history) - 1
               /\ \A s \in rooms[code].clients : outbox'[s] # <<>>]_vars

\* an undo took back the tap of a card that an import had replaced, on a board
\* that holds the imported cards
C33_Witness ==
  /\ op.kind = "undo_message"
  /\ Len(op.random) = 1
  /\ op.random[1].type = EffectTypes.UNTAP_CARD
  /\ \E code \in DOMAIN rooms :
       /\ FindById(rooms[code].game.board, op.random[1].payload.cardId) = 0
       /\ Imported(rooms[code].game.board) # <<>>
       /\ rooms[code].game.history = <<>>
       /\ rooms[code].game.log[1].label = "Undo"
       /\ \E e \in AbsentTargets(rooms[code].game) : e.type = EffectTypes.MOVE_ZONE
       /\ \E e \in AbsentTargets(rooms[code].game) : e.type = EffectTypes.MODIFY_LIFE

\* C34: the state of a room's session is written only by the session: log,
\* board and players of a room change only in a step that is a game_action or
\* an undo, and then to what dispatch or undo, applying effects, make of them.
C34_OnlyApplierWrites ==
  [][\A code \in DOMAIN rooms :
       LET before == rooms[code].game
           after == rooms'[code].game
           dispatched == dispatch(before, op'.action, <<>>, clock')
           undone == undo(before, clock')
       IN (\/ after.log # before.log
           \/ after.board # before.board
           \/ after.players # before.players)
            => \/ /\ op'.kind = "game_action"
                  /\ after.log = dispatched.log
                  /\ after.board = dispatched.board
                  /\ after.players = dispatched.players
               \/ /\ op'.kind = "undo_message"
                  /\ after.log = undone.log
                  /\ after.board = undone.board
                  /\ after.players = undone.players]_vars

\* C35: every player's life total is an integer in every state that dispatch
\* and undo reach, whatever amount the modify-life payloads carried, a missing
\* one included.
C35_LifeIsInteger ==
  \A i \in 1..Len(state.players) : state.players[i].life.t = "num"

\* the seat that owns a card of the board a room starts with, Undefined for a
\* card that is not of that board
BaseSeat(cardId) ==
  LET k == FindById(BaseBoard, cardId)
  IN IF k = 0 THEN Undefined
     ELSE BasePlayers[FindById(BasePlayers, IF BaseBoard[k].owner = BasePlayers[1].name
                                              THEN BasePlayers[1].id
                                              ELSE BasePlayers[2].id)].id

\* the seats of the players that a card's owner field names
OwnerSeats(game, card) ==
  {game.players[j].id : j \in {i \in 1..Len(game.players) : game.players[i].name = card.owner}}

\* C36: in every room every card's owner names exactly one player, and a card
\* of the starting board is owned by the seat that owned it when the room was
\* created, whatever joins the room has seen.
C36_OwnershipPartition ==
  \A code \in DOMAIN rooms :
    \A i \in 1..Len(rooms[code].game.board) :
      LET card == rooms[code].game.board[i]
          seats == OwnerSeats(rooms[code].game, card)
      IN /\ Cardinality(seats) = 1
         /\ BaseSeat(card.id) # Undefined => seats = {BaseSeat(card.id)}

\* the clients of a room whose socket.playerId is the given seat
Holders(code, seat) == {s \in rooms[code].clients : sockets[s].playerId = seat}

\* C37: in every room at most one client of the room's client set holds p1 and
\* at most one holds p2.
C37_SeatsHeldOnce ==
  \A code \in DOMAIN rooms : \A seat \in {"p1", "p2"} : Cardinality(Holders(code, seat)) <= 1

\* a sequence without its i-th element
Without(seq, i) == SubSeq(seq, 1, i - 1) \o SubSeq(seq, i + 1, Len(seq))

\* the cards of a board whose owner is not the given name
NotOwnedBy(board, owner) ==
  LET Other(c) == c.owner # owner IN SelectSeq(board, Other)

\* C38: when the fetch of a deck import succeeds, the only room whose state
\* changes is the room the connection was in when it asked for the import,
\* and the cards of that room that the importing player does not own stay.
C38_ImportStaysInRoom ==
  [][\A i \in 1..Len(fetches) :
       (op'.kind = "import_settled" /\ ~op'.threw /\ fetches' = Without(fetches, i))
         => LET asked == fetches[i].room
                owner == NameOf(rooms[asked].game.players, fetches[i].playerId)
            IN /\ \A code \in DOMAIN rooms \ {asked} : rooms'[code] = rooms[code]
               /\ NotOwnedBy(rooms'[asked].game.board, owner)
                    = NotOwnedBy(rooms[asked].game.board, owner)]_vars

\* the cards in zone hand of the snapshots a connection was sent last
HandsSent(s) ==
  UNION {{m.state.board[i] : i \in {j \in 1..Len(m.state.board) : m.state.board[j].zone = "hand"}} :
           m \in {outbox[s][k] : k \in {n \in 1..Len(outbox[s]) : outbox[s][n].type = "snapshot"}}}

\* C39: hand privacy: a hand card of a snapshot sent to a client belongs to the
\* client's assigned player, by the seat that owned it when the room was
\* created or, for an imported card, by the one player its owner names; a
\* spectator's snapshot holds no hand card.
C39_HandPrivacy ==
  \A s \in SocketIds :
    \A card \in HandsSent(s) :
      /\ sockets[s].playerId # Undefined
      /\ sockets[s].currentRoom # Undefined
      /\ IF BaseSeat(card.id) # Undefined
           THEN BaseSeat(card.id) = sockets[s].playerId
           ELSE OwnerSeats(rooms[sockets[s].currentRoom].game, card) = {sockets[s].playerId}

\* the name of the owner of the card with that id, Undefined without the card
OwnerOf(board, cardId) ==
  LET i == FindById(board, cardId) IN IF i = 0 THEN Undefined ELSE board[i].owner

\* C40: a client acts only as its own player: the cards that an accepted draw
\* of a game_action moves, and the library that an accepted shuffle orders, are
\* those of the player the sending connection is seated as, whatever player
\* id the payload names.
C40_ActsAsOwnPlayer ==
  [][\A code \in DOMAIN rooms :
       (/\ op'.kind = "game_action"
        /\ ~op'.threw
        /\ op'.action.playerId # Undefined
        /\ op'.action.type \in {ActionTypes.DRAW_CARD, ActionTypes.SHUFFLE_LIBRARY}
        /\ rooms'[code] # rooms[code])
         => LET game == rooms[code].game
                sender == NameOf(game.players, op'.action.playerId)
                effects == processAction(game, op'.action, <<>>).effects
            IN \A k \in 1..Len(effects) :
                 /\ effects[k].type = EffectTypes.MOVE_ZONE
                      => OwnerOf(game.board, effects[k].payload.cardId) = sender
                 /\ effects[k].type = EffectTypes.SET_ZONE_ORDER
                      => effects[k].payload.owner = sender]_vars

====
